---- MODULE Spec2Model ----
(***************************************************************************)
(* WildTrace dashboard: the page components of src/src/Pages and           *)
(* src/wildTrace-Dashboard/src/Pages as a state machine.                   *)
(*                                                                         *)
(* State is the React state of the mounted page (the useState cells).      *)
(* The derivations a page recomputes on every render (getFilteredData,     *)
(* getLocationName, prepareRadarData, getMetricStats, ...) are operators   *)
(* over that state.  The data provider (Entity.list) is external: a        *)
(* resolved load delivers any sequences of records drawn from the pools    *)
(* below.                                                                  *)
(*                                                                         *)
(* JavaScript values.  An object is a function from its own property names *)
(* to values; an absent property is a key missing from DOMAIN (reading it  *)
(* yields undefined).  Numbers are exact rationals [n, d] in lowest terms  *)
(* with d > 0, and NaN is [n |-> 0, d |-> 0]; IEEE-754 rounding is not     *)
(* modelled.  Readings stored in records are integers.                     *)
(***************************************************************************)
EXTENDS Integers, Sequences, FiniteSets, TLC

(* ---------------------------- bounds ----------------------------------- *)

\* longest record sequence a load delivers
MaxRecords == 2

\* longest Location sequence a load delivers
MaxLocations == 2

(* ---------------------------- JS values -------------------------------- *)

\* undefined / null: strictly unequal (===) to every id string
Undefined == "<undefined>"

\* obj[key] for a possibly absent property
Prop(obj, key) == IF key \in DOMAIN obj THEN obj[key] ELSE Undefined

\* the `x || 0` idiom on a numeric property: undefined, null and 0 give 0
OrZero(obj, key) == IF key \in DOMAIN obj /\ obj[key] # 0 THEN obj[key] ELSE 0

SeqsUpTo(S, n) == UNION {[1..k -> S] : k \in 0..n}

Abs(x) == IF x < 0 THEN -x ELSE x

RECURSIVE GCD(_, _)
GCD(a, b) == IF b = 0 THEN a ELSE GCD(b, a % b)

NaN == [n |-> 0, d |-> 0]

\* -Infinity and Infinity: what Math.max() and Math.min() of no arguments return
NegInfinity == [n |-> -1, d |-> 0]

PosInfinity == [n |-> 1, d |-> 0]

IsNaN(x) == x.d = 0 /\ x.n = 0

\* the number n/d; 0/0 is NaN (x/0 with x # 0 does not occur in the pages)
Num(n, d) ==
    IF d = 0 THEN NaN
    ELSE LET g == GCD(Abs(n), Abs(d))
             s == IF d < 0 THEN -1 ELSE 1
         IN  [n |-> (s * n) \div g, d |-> (s * d) \div g]

FromInt(i) == [n |-> i, d |-> 1]

\* a / b
Div(a, b) == IF IsNaN(a) \/ IsNaN(b) THEN NaN ELSE Num(a.n * b.d, a.d * b.n)

\* a * b
Mul(a, b) == IF IsNaN(a) \/ IsNaN(b) THEN NaN ELSE Num(a.n * b.n, a.d * b.d)

\* a + b
Add(a, b) == IF IsNaN(a) \/ IsNaN(b) THEN NaN ELSE Num(a.n * b.d + b.n * a.d, a.d * b.d)

\* a - b
Sub(a, b) == IF IsNaN(a) \/ IsNaN(b) THEN NaN ELSE Num(a.n * b.d - b.n * a.d, a.d * b.d)

\* obj[key] as a number in arithmetic: undefined converts to NaN
NumberOf(obj, key) == IF key \in DOMAIN obj THEN FromInt(obj[key]) ELSE NaN

\* a === b on numbers: NaN is equal to nothing, itself included
StrictEquals(a, b) == ~IsNaN(a) /\ ~IsNaN(b) /\ a = b

\* a <= b on numbers that are not NaN
Leq(a, b) == a.n * b.d <= b.n * a.d

\* Math.min(a, b): NaN if either is NaN
MathMin2(a, b) == IF IsNaN(a) \/ IsNaN(b) THEN NaN ELSE IF Leq(a, b) THEN a ELSE b

\* Math.max(a, b): NaN if either is NaN
MathMax2(a, b) == IF IsNaN(a) \/ IsNaN(b) THEN NaN ELSE IF Leq(a, b) THEN b ELSE a

(* ---------------------------- data pools ------------------------------- *)

\* ids the data provider gives Location records
LocationIds == {"loc1", "loc2"}

\* an id that no Location ever has
OrphanId == "loc9"

\* Location.name is free text; "1770" (a town in Queensland) is a name that
\* is also a canonical array index
LocationNames == {"Alps", "1770"}

\* the Location records a load may deliver: two locations may carry the same
\* name, and nothing in the pages keeps ids unique
LocationPool ==
    { [id |-> "loc1", name |-> "Alps"],
      [id |-> "loc2", name |-> "1770"],
      [id |-> "loc2", name |-> "Alps"] }

LocationLists == SeqsUpTo(LocationPool, MaxLocations)

\* attach location_id l to the readings r; Undefined leaves the property absent
AtLocation(l, r) == IF l = Undefined THEN r ELSE [location_id |-> l] @@ r

\* the location_id of a record: an id the provider gives locations (orphaned
\* when the loaded locations lack it), or none
RecordLocationIds == LocationIds \cup {Undefined}

\* readings an EnvironmentalData record may carry: a temperate day, a hot
\* bright loud day whose temperature_min was not recorded, and a sub-zero
\* day with no light, air-quality or noise reading whose hygrometer reads
\* above saturation (104)
EnvReadings ==
    { [temperature_avg |-> 10, temperature_min |-> 5, temperature_max |-> 15,
       humidity |-> 40, light_exposure |-> 5000, air_quality_index |-> 50,
       noise_level |-> 30, date |-> [month |-> 6, day |-> 1]],
      [temperature_avg |-> 20, temperature_max |-> 31,
       humidity |-> 80, light_exposure |-> 20000, air_quality_index |-> 300,
       noise_level |-> 120, date |-> [month |-> 7, day |-> 14]],
      [temperature_avg |-> -10, temperature_min |-> -20, temperature_max |-> -5,
       humidity |-> 104, date |-> [month |-> 1, day |-> 31]] }

EnvPool == {AtLocation(l, r) : l \in RecordLocationIds, r \in EnvReadings}

\* a date of the journey's year as a sort key
DateKey(date) == 31 * date.month + date.day

\* what list('date') resolves to: records in ascending order of their date
SortedByDate(data) ==
    \A i \in 1..(Len(data) - 1) : DateKey(data[i].date) <= DateKey(data[i + 1].date)

\* EnvironmentalData.list('date')
EnvLists == {data \in SeqsUpTo(EnvPool, MaxRecords) : SortedByDate(data)}

\* readings a BiologicalData record may carry: a rested day, an exhausted
\* day, a day of high variability and stress, a day on which the sensor
\* reported a negative variability, and a day on which only variability and
\* stress (zero) were recorded
BioReadings ==
    { [heart_rate_resting |-> 60, heart_rate_variability |-> 50,
       sleep_quality_score |-> 10, sleep_duration |-> 8, stress_level |-> 0,
       date |-> [month |-> 6, day |-> 1]],
      [heart_rate_resting |-> 72, heart_rate_variability |-> 0,
       sleep_quality_score |-> 0, sleep_duration |-> 4, stress_level |-> 10,
       date |-> [month |-> 6, day |-> 2]],
      [heart_rate_resting |-> 55, heart_rate_variability |-> 120,
       sleep_quality_score |-> 5, sleep_duration |-> 6, stress_level |-> 7,
       date |-> [month |-> 7, day |-> 14]],
      [heart_rate_resting |-> 65, heart_rate_variability |-> -10,
       sleep_quality_score |-> 5, sleep_duration |-> 7, stress_level |-> 2,
       date |-> [month |-> 12, day |-> 24]],
      [heart_rate_variability |-> 30, stress_level |-> 0,
       date |-> [month |-> 1, day |-> 31]] }

BioPool == {AtLocation(l, r) : l \in RecordLocationIds, r \in BioReadings}

\* BiologicalData.list('date')
BioLists == {data \in SeqsUpTo(BioPool, MaxRecords) : SortedByDate(data)}

\* a JournalEntry: mood_score is 1..10 and optional
JournalReadings == { [mood_score |-> 3], [mood_score |-> 8], [title |-> "untitled"] }

JournalPool == {AtLocation(l, r) : l \in RecordLocationIds, r \in JournalReadings}

JournalLists == SeqsUpTo(JournalPool, MaxRecords)

\* arrival_date: null, as the time new Date(null) gives it: 1 January 1970,
\* before every date of the journey
NullDate == [month |-> 0, day |-> 0]

\* the Location records JourneyMap may be given: two stops that were reached
\* and a planned stop whose arrival_date is still null
JourneyLocationPool ==
    { [id |-> "loc1", name |-> "Alps", arrival_date |-> [month |-> 6, day |-> 1],
       latitude |-> 46, longitude |-> 8],
      [id |-> "loc2", name |-> "1770", arrival_date |-> [month |-> 7, day |-> 14],
       latitude |-> -24, longitude |-> 151],
      [id |-> "loc3", name |-> "Camp", arrival_date |-> NullDate,
       latitude |-> 64, longitude |-> -21] }

\* the provider's ascending order on arrival_date; where it puts the records
\* whose arrival_date is null (before or after all others) is its own choice
ProviderRank(location, nullsLast) ==
    IF location.arrival_date = NullDate /\ nullsLast
    THEN DateKey([month |-> 13, day |-> 0])
    ELSE DateKey(location.arrival_date)

SortedByArrival(locs, nullsLast) ==
    \A i \in 1..(Len(locs) - 1) :
        ProviderRank(locs[i], nullsLast) <= ProviderRank(locs[i + 1], nullsLast)

\* Location.list('arrival_date') as JourneyMap receives it
JourneyLocationLists ==
    {locs \in SeqsUpTo(JourneyLocationPool, MaxLocations) :
        \E nullsLast \in BOOLEAN : SortedByArrival(locs, nullsLast)}

\* EnvironmentalData.list() and JournalEntry.list() as JourneyMap receives
\* them (no sort key): the map reads only their location_id and their number
JourneyEnvLists ==
    SeqsUpTo({d \in EnvPool : d.temperature_avg = 10}, MaxRecords - 1)

JourneyJournalLists ==
    SeqsUpTo({e \in JournalPool : "title" \in DOMAIN e}, MaxRecords - 1)

(* ---------------------------- state ------------------------------------ *)

VARIABLES
    page,               \* the mounted page component
    locations,          \* useState([]) of every page
    environmentalData,  \* Environmental
    biologicalData,     \* Biological
    journalEntries,     \* Journal
    selectedLocation,   \* the location scope: "all" or a location id
    isLoading,          \* useState(true)
    fetches,            \* one record per loadData invocation awaiting Promise.all
    selectedEmotion,    \* Journal: useState("all")
    searchQuery,        \* Journal: useState(""), a string as its characters
    showNewEntry,       \* Journal: useState(false), the dialog is open
    formData,           \* NewEntryForm: useState({...})
    creating,           \* payloads of the handleSubmit calls awaiting create
    created,            \* the entries JournalEntry.create has stored
    calls,              \* what the last handleSubmit continuation called
    logged              \* the messages console.error has been given

\* the filters of the Journal page besides selectedLocation
filterVars == <<selectedEmotion, searchQuery>>

\* the dialog, the form in it and the entries it has sent
formVars == <<showNewEntry, formData, creating, created, calls>>

vars == <<page, locations, environmentalData, biologicalData, journalEntries,
          selectedLocation, isLoading, fetches, filterVars, formVars, logged>>

Pages == {"Environmental", "Biological", "Journal"}

\* the Entity.list calls inside the Promise.all of a page's loadData
Fetches(p) ==
    CASE p = "Environmental" -> {"EnvironmentalData", "Location"}
      [] p = "Biological" -> {"BiologicalData", "Location"}
      [] p = "Journal" -> {"JournalEntry", "Location"}
      [] p = "JourneyMap" -> {"Location", "EnvironmentalData", "JournalEntry"}
      [] p = "DataArchive" ->
            {"Location", "BiologicalData", "EnvironmentalData", "JournalEntry"}

\* a loadData invocation that has issued its fetches and awaits Promise.all;
\* listed is the number of created entries its JournalEntry.list response holds
NewInvocation(p) ==
    [status |-> [f \in Fetches(p) |-> "pending"], listed |-> 0]

\* the number of loadData invocations awaiting their Promise.all
pending == Len(fetches)

\* faulty variant of AllResolved: the first resolved promise is enough
AnyResolved(invocation) ==
    \E f \in DOMAIN invocation.status : invocation.status[f] = "resolved"

\* Promise.all resolves once every promise has resolved
AllResolved(invocation) ==
    \A f \in DOMAIN invocation.status : invocation.status[f] = "resolved"

\* Promise.all rejects as soon as one promise has rejected
AnyRejected(invocation) ==
    \E f \in DOMAIN invocation.status : invocation.status[f] = "rejected"

\* the invocations without the k-th, whose loadData has returned
Returned(invocations, k) ==
    [i \in 1..(Len(invocations) - 1) |->
        IF i < k THEN invocations[i] ELSE invocations[i + 1]]

\* today's date, new Date().toISOString().split('T')[0]
Today == [month |-> 11, day |-> 3]

\* the useState initial value of NewEntryForm
InitialFormData ==
    [location_id |-> "", date |-> Today, title |-> <<>>, content |-> <<>>,
     emotions |-> <<>>, mood_score |-> 5, highlight_moment |-> FALSE]

\* the Journal filters and the dialog at their useState initial values
InitialJournalState ==
    /\ selectedEmotion = "all"
    /\ searchQuery = <<>>
    /\ showNewEntry = FALSE
    /\ formData = InitialFormData
    /\ creating = <<>>
    /\ created = <<>>
    /\ calls = <<>>
    /\ logged = {}

\* a page has just mounted: the useState initial values, and the mount effect
\* has called loadData, which has set isLoading and awaits Promise.all
Mounted(p) ==
    /\ page = p
    /\ locations = <<>>
    /\ environmentalData = <<>>
    /\ biologicalData = <<>>
    /\ journalEntries = <<>>
    /\ selectedLocation = "all"
    /\ isLoading = TRUE
    /\ fetches = <<NewInvocation(p)>>
    /\ InitialJournalState

Init == \E p \in Pages : Mounted(p)

(* ---------------------------- loadData --------------------------------- *)

\* one Entity.list promise of an awaited Promise.all resolves; the response of
\* JournalEntry.list holds the entries created so far
FetchResolved ==
    /\ \E k \in DOMAIN fetches, f \in Fetches(page) :
          /\ fetches[k].status[f] = "pending"
          /\ fetches' = [fetches EXCEPT
                ![k].status[f] = "resolved",
                ![k].listed = IF f = "JournalEntry" THEN Len(created) ELSE @]
    /\ UNCHANGED <<page, locations, environmentalData, biologicalData,
                   journalEntries, selectedLocation, isLoading, filterVars,
                   formVars, logged>>

\* one Entity.list promise of an awaited Promise.all rejects
FetchRejected ==
    /\ \E k \in DOMAIN fetches, f \in Fetches(page) :
          /\ fetches[k].status[f] = "pending"
          /\ fetches' = [fetches EXCEPT ![k].status[f] = "rejected"]
    /\ UNCHANGED <<page, locations, environmentalData, biologicalData,
                   journalEntries, selectedLocation, isLoading, filterVars,
                   formVars, logged>>

\* Environmental.loadData after Promise.all resolved
EnvLoadResolved ==
    /\ page = "Environmental"
    /\ \E k \in DOMAIN fetches :
          /\ AllResolved(fetches[k])
          /\ fetches' = Returned(fetches, k)
    /\ environmentalData' \in EnvLists
    /\ locations' \in LocationLists
    /\ isLoading' = FALSE
    /\ UNCHANGED <<page, biologicalData, journalEntries, selectedLocation,
                   filterVars, formVars, logged>>

\* Biological.loadData after Promise.all resolved
BioLoadResolved ==
    /\ page = "Biological"
    /\ \E k \in DOMAIN fetches :
          /\ AllResolved(fetches[k])
          /\ fetches' = Returned(fetches, k)
    /\ biologicalData' \in BioLists
    /\ locations' \in LocationLists
    /\ isLoading' = FALSE
    /\ UNCHANGED <<page, environmentalData, journalEntries, selectedLocation,
                   filterVars, formVars, logged>>

\* the response of JournalEntry.list('-date') that holds the first n created
\* entries besides the rows the provider already had: the created entries are
\* dated today, the newest first
RECURSIVE listResponse(_, _)
listResponse(rows, n) ==
    IF n = 0 THEN rows ELSE <<created[n]>> \o listResponse(rows, n - 1)

\* the responses of JournalEntry.list('-date') that hold the first n created
\* entries
listResponses(entryLists, n) ==
    IF n = 0 THEN entryLists
    ELSE {listResponse(rows, n) : rows \in entryLists}

\* Journal.loadData after Promise.all resolved, the provider's own rows and
\* locations drawn from the given sets
LoadJournal(entryLists, locationLists) ==
    /\ page = "Journal"
    /\ \E k \in DOMAIN fetches :
          /\ AllResolved(fetches[k])
          /\ fetches' = Returned(fetches, k)
          /\ journalEntries' \in listResponses(entryLists, fetches[k].listed)
          /\ locations' \in locationLists
    /\ isLoading' = FALSE
    /\ UNCHANGED <<page, environmentalData, biologicalData, selectedLocation,
                   filterVars, formVars, logged>>

\* Journal.loadData after Promise.all resolved
JournalLoadResolved == LoadJournal(JournalLists, LocationLists)

\* faulty variant of LoadRejected: setIsLoading(false) is skipped by the catch
LoadRejectedStaysLoading ==
    /\ \E k \in DOMAIN fetches :
          /\ AnyRejected(fetches[k])
          /\ fetches' = Returned(fetches, k)
    /\ logged' = logged \cup {"Error loading data"}
    /\ UNCHANGED <<page, locations, environmentalData, biologicalData,
                   journalEntries, selectedLocation, isLoading, filterVars,
                   formVars>>

\* loadData after Promise.all rejected: the catch logs, no collection is set
LoadRejected ==
    /\ \E k \in DOMAIN fetches :
          /\ AnyRejected(fetches[k])
          /\ fetches' = Returned(fetches, k)
    /\ isLoading' = FALSE
    /\ logged' = logged \cup {"Error loading data"}
    /\ UNCHANGED <<page, locations, environmentalData, biologicalData,
                   journalEntries, selectedLocation, filterVars, formVars>>

(* ---------------------------- location scope --------------------------- *)

\* the values the location <Select> offers: "all" and each location's id
SelectItems == {"all"} \cup {locations[i].id : i \in DOMAIN locations}

\* onValueChange={setSelectedLocation}; the selector is rendered only when
\* the page is past its isLoading guard
SetSelectedLocation ==
    /\ ~isLoading
    /\ \E v \in SelectItems : selectedLocation' = v
    /\ UNCHANGED <<page, locations, environmentalData, biologicalData,
                   journalEntries, isLoading, fetches, filterVars, formVars, logged>>

(* ---------------------------- shared derivations --------------------- *)

\* faulty variant of filterByLocationId: the predicate
\* !data.location_id || data.location_id === locationId
RECURSIVE filterKeepsUnlocated(_, _)
filterKeepsUnlocated(data, locationId) ==
    IF data = <<>> THEN <<>>
    ELSE LET rest == filterKeepsUnlocated(Tail(data), locationId)
         IN  IF Prop(Head(data), "location_id") \in {locationId, Undefined}
             THEN <<Head(data)>> \o rest
             ELSE rest

\* Array.prototype.filter with the predicate location_id === locationId
RECURSIVE filterByLocationId(_, _)
filterByLocationId(data, locationId) ==
    IF data = <<>> THEN <<>>
    ELSE LET rest == filterByLocationId(Tail(data), locationId)
         IN  IF Prop(Head(data), "location_id") = locationId
             THEN <<Head(data)>> \o rest
             ELSE rest

\* faulty variant of getFilteredData: the "all" early return is missing
getFilteredDataNoAll(data) == filterByLocationId(data, selectedLocation)

\* getFilteredData of Environmental and Biological, over the page's collection
getFilteredData(data) ==
    IF selectedLocation = "all" THEN data
    ELSE filterByLocationId(data, selectedLocation)

\* JourneyMap.getLocationEnvironmentalData: the same filter with no "all" branch
getLocationEnvironmentalData(locationId) ==
    filterByLocationId(environmentalData, locationId)

\* locations.find(loc => loc.id === locationId), scanning from index i: the
\* index of the location found, 0 for undefined
RECURSIVE findLocation(_, _)
findLocation(locationId, i) ==
    IF i > Len(locations) THEN 0
    ELSE IF locations[i].id = locationId THEN i
    ELSE findLocation(locationId, i + 1)

\* faulty variant of getLocationName: the last match instead of the first (findLast)
getLocationNameLast(locationId) ==
    LET matches == {i \in DOMAIN locations : locations[i].id = locationId}
    IN  IF matches # {}
        THEN locations[CHOOSE i \in matches : \A j \in matches : j <= i].name
        ELSE "Unknown Location"

\* getLocationName of Environmental, Biological, Journal and DataArchive
getLocationName(locationId) ==
    LET location == findLocation(locationId, 1)
    IN  IF location # 0 THEN locations[location].name ELSE "Unknown Location"

\* arr.reduce((sum, d) => sum + (d[field] || 0), 0) over the first i records
RECURSIVE reduceSum(_, _, _)
reduceSum(data, field, i) ==
    IF i = 0 THEN 0 ELSE reduceSum(data, field, i - 1) + OrZero(data[i], field)

\* faulty variant of averageOf: records without the field are left out of the count
averageOfPresent(data, field) ==
    Div(FromInt(reduceSum(data, field, Len(data))),
        FromInt(Cardinality({i \in DOMAIN data : field \in DOMAIN data[i]})))

\* data.reduce((sum, d) => sum + (d[field] || 0), 0) / data.length
averageOf(data, field) ==
    Div(FromInt(reduceSum(data, field, Len(data))), FromInt(Len(data)))

\* faulty variant of minOf: a record without the field is skipped instead of
\* counting as 0
RECURSIVE minOfPresent(_, _, _)
minOfPresent(data, field, i) ==
    IF i = 0 THEN PosInfinity
    ELSE IF field \in DOMAIN data[i]
         THEN MathMin2(minOfPresent(data, field, i - 1), FromInt(data[i][field]))
         ELSE minOfPresent(data, field, i - 1)

\* Math.min(...data.map(d => d[field] || 0)) for nonempty data
RECURSIVE minOf(_, _, _)
minOf(data, field, i) ==
    IF i = 1 THEN FromInt(OrZero(data[1], field))
    ELSE MathMin2(minOf(data, field, i - 1), FromInt(OrZero(data[i], field)))

\* Math.max(...data.map(d => d[field] || 0)) for nonempty data
RECURSIVE maxOf(_, _, _)
maxOf(data, field, i) ==
    IF i = 1 THEN FromInt(OrZero(data[1], field))
    ELSE MathMax2(maxOf(data, field, i - 1), FromInt(OrZero(data[i], field)))

RECURSIVE Pow10(_)
Pow10(k) == IF k = 0 THEN 1 ELSE 10 * Pow10(k - 1)

\* Number.prototype.toFixed(digits) as rendered text: "NaN" for NaN, otherwise
\* the decimal with `digits` fraction digits nearest to x (half away from zero),
\* kept as the integer x * 10^digits
toFixed(x, digits) ==
    IF IsNaN(x) THEN [kind |-> "NaN"]
    ELSE LET scale == Pow10(digits)
             m == Abs(x.n) * scale
             q == (2 * m + x.d) \div (2 * x.d)
         IN  [kind |-> "number", digits |-> digits,
              scaled |-> IF x.n < 0 THEN -q ELSE q]

\* React renders undefined as no text
Blank == [kind |-> "blank"]

MonthNames ==
    <<"Jan", "Feb", "Mar", "Apr", "May", "Jun",
      "Jul", "Aug", "Sep", "Oct", "Nov", "Dec">>

\* format(new Date(data.date), 'MMM d'): the label "Jun 1" as its month
\* abbreviation and its day of the month (the shift a time zone west of UTC
\* applies to a date-only string is not modelled)
formatMMMd(date) == <<MonthNames[date.month], date.day>>

\* the object literal {...data, date: format(...), location: getLocationName(...)}
ProjectRecord(data) ==
    [k \in DOMAIN data \cup {"date", "location"} |->
        IF k = "date" THEN formatMMMd(data.date)
        ELSE IF k = "location" THEN getLocationName(Prop(data, "location_id"))
        ELSE data[k]]

\* faulty variant of MapProjectRecord: the projected records come newest first
RECURSIVE MapProjectRecordReversed(_, _)
MapProjectRecordReversed(filteredData, i) ==
    IF i = 0 THEN <<>>
    ELSE <<ProjectRecord(filteredData[i])>> \o MapProjectRecordReversed(filteredData, i - 1)

\* filteredData.map(data => ({...data, date: ..., location: ...})): the array
\* built from the first i records
RECURSIVE MapProjectRecord(_, _)
MapProjectRecord(filteredData, i) ==
    IF i = 0 THEN <<>>
    ELSE Append(MapProjectRecord(filteredData, i - 1), ProjectRecord(filteredData[i]))

\* prepareTimeSeriesData of Environmental and Biological, over the page's
\* collection: getFilteredData().map(...)
prepareTimeSeriesData(data) ==
    MapProjectRecord(getFilteredData(data), Len(getFilteredData(data)))

(* ---------------------------- Environmental ---------------------------- *)

\* the object getMetricStats returns for nonempty filteredData
MetricStatsOf(filteredData) ==
    [temperature |->
        [avg |-> averageOf(filteredData, "temperature_avg"),
         min |-> minOf(filteredData, "temperature_min", Len(filteredData)),
         max |-> maxOf(filteredData, "temperature_max", Len(filteredData))],
     humidity |-> [avg |-> averageOf(filteredData, "humidity")],
     light |-> [avg |-> averageOf(filteredData, "light_exposure")],
     airQuality |-> [avg |-> averageOf(filteredData, "air_quality_index")]]

\* Environmental.getMetricStats
getMetricStats ==
    IF Len(getFilteredData(environmentalData)) = 0 THEN <<>>
    ELSE MetricStatsOf(getFilteredData(environmentalData))

\* faulty variant of StatCard: stats.<card>.avg.toFixed(digits) without the
\* optional chaining reads .avg of undefined
StatCardUnguarded(stats, card, digits) ==
    IF card \in DOMAIN stats THEN toFixed(stats[card].avg, digits)
    ELSE [kind |-> "TypeError"]

\* {stats.<card>?.avg.toFixed(digits)}: optional chaining, then toFixed
StatCard(stats, card, digits) ==
    IF card \in DOMAIN stats THEN toFixed(stats[card].avg, digits) ELSE Blank

EnvStatCard(card, digits) == StatCard(getMetricStats, card, digits)

\* own string keys that are canonical array indices, with their numeric value:
\* Object.entries lists these first, in ascending numeric order
ArrayIndexKeys == [k \in {"1770"} |-> 1770]

\* an object as its own keys in insertion order and its property values
EmptyObject == [order |-> <<>>, at |-> <<>>]

HasKey(obj, k) == \E i \in DOMAIN obj.order : obj.order[i] = k

\* obj[k] = v
SetKey(obj, k, v) ==
    [order |-> IF HasKey(obj, k) THEN obj.order ELSE Append(obj.order, k),
     at |-> [j \in {obj.order[i] : i \in DOMAIN obj.order} \cup {k} |->
                IF j = k THEN v ELSE obj.at[j]]]

\* the array-index keys of `keys`, ascending
RECURSIVE SortedIndexKeys(_)
SortedIndexKeys(keys) ==
    IF keys = {} THEN <<>>
    ELSE LET least == CHOOSE k \in keys :
                          \A j \in keys : ArrayIndexKeys[k] <= ArrayIndexKeys[j]
         IN  <<least>> \o SortedIndexKeys(keys \ {least})

\* the keys of `order` that are not array indices, in insertion order
RECURSIVE StringKeys(_)
StringKeys(order) ==
    IF order = <<>> THEN <<>>
    ELSE IF Head(order) \in DOMAIN ArrayIndexKeys THEN StringKeys(Tail(order))
    ELSE <<Head(order)>> \o StringKeys(Tail(order))

\* the key order of Object.entries (OrdinaryOwnPropertyKeys)
OwnKeys(obj) ==
    SortedIndexKeys({obj.order[i] : i \in DOMAIN obj.order} \cap DOMAIN ArrayIndexKeys)
        \o StringKeys(obj.order)

\* Object.entries(obj)
EntriesOf(obj, keys) ==
    [i \in DOMAIN keys |-> [key |-> keys[i], value |-> obj.at[keys[i]]]]

ObjectEntries(obj) == EntriesOf(obj, OwnKeys(obj))

\* the empty metric arrays of a new group
NewGroup ==
    [temperature |-> <<>>, humidity |-> <<>>, light |-> <<>>,
     airQuality |-> <<>>, noise |-> <<>>]

\* the five push calls of the forEach body on group g
PushReadings(g, data) ==
    [temperature |-> Append(g.temperature, OrZero(data, "temperature_avg")),
     humidity |-> Append(g.humidity, OrZero(data, "humidity")),
     light |-> Append(g.light, OrZero(data, "light_exposure")),
     airQuality |-> Append(g.airQuality, OrZero(data, "air_quality_index")),
     noise |-> Append(g.noise, OrZero(data, "noise_level"))]

\* faulty variant of GroupRecord: every record starts its group anew
GroupRecordAnew(groups, locationName, data) ==
    SetKey(groups, locationName, PushReadings(NewGroup, data))

\* the forEach body of prepareRadarData on one record, its locationName resolved
GroupRecord(groups, locationName, data) ==
    IF ~HasKey(groups, locationName)
    THEN SetKey(groups, locationName, PushReadings(NewGroup, data))
    ELSE SetKey(groups, locationName, PushReadings(groups.at[locationName], data))

\* prepareRadarData: locationGroups after the forEach has visited the first i
\* records of filteredData
RECURSIVE locationGroups(_, _)
locationGroups(filteredData, i) ==
    IF i = 0 THEN EmptyObject
    ELSE GroupRecord(locationGroups(filteredData, i - 1),
                     getLocationName(Prop(filteredData[i], "location_id")),
                     filteredData[i])

\* arr.reduce((sum, val) => sum + val, 0) over the first i elements
RECURSIVE reduceArr(_, _)
reduceArr(arr, i) == IF i = 0 THEN 0 ELSE reduceArr(arr, i - 1) + arr[i]

\* faulty variant of avg: divides by filteredData.length, as getMetricStats does
avgOverAll(arr) ==
    Div(FromInt(reduceArr(arr, Len(arr))),
        FromInt(Len(getFilteredData(environmentalData))))

\* prepareRadarData: const avg = (arr) => arr.reduce(...) / arr.length
avg(arr) == Div(FromInt(reduceArr(arr, Len(arr))), FromInt(Len(arr)))

\* faulty variant of normalize: the Math.min(100, ...) clamp is missing
normalizeUnclamped(value, maxScale) ==
    Mul(Div(value, FromInt(maxScale)), FromInt(100))

\* prepareRadarData: Math.min(100, (value / maxScale) * 100)
normalize(value, maxScale) ==
    MathMin2(FromInt(100), Mul(Div(value, FromInt(maxScale)), FromInt(100)))

\* the groups prepareRadarData maps over, in Object.entries order
radarGroups ==
    LET filteredData == getFilteredData(environmentalData)
    IN  ObjectEntries(locationGroups(filteredData, Len(filteredData)))

\* faulty variant of RadarEntry: Humidity is rescaled and clamped like the others
RadarEntryHumidityClamped(location, metrics) ==
    [location |-> location,
     Temperature |-> normalize(avg(metrics.temperature), 40),
     Humidity |-> normalize(avg(metrics.humidity), 100),
     Light |-> normalize(avg(metrics.light), 10000),
     AirQuality |-> normalize(avg(metrics.airQuality), 200),
     Noise |-> normalize(avg(metrics.noise), 100)]

\* the callback prepareRadarData maps over Object.entries(locationGroups)
RadarEntry(location, metrics) ==
    [location |-> location,
     Temperature |-> normalize(avg(metrics.temperature), 40),
     Humidity |-> avg(metrics.humidity),
     Light |-> normalize(avg(metrics.light), 10000),
     AirQuality |-> normalize(avg(metrics.airQuality), 200),
     Noise |-> normalize(avg(metrics.noise), 100)]

\* Object.entries(locationGroups).map(...)
MapEntries(entries) ==
    [i \in DOMAIN entries |-> RadarEntry(entries[i].key, entries[i].value)]

\* Environmental.prepareRadarData
prepareRadarData ==
    IF Len(getFilteredData(environmentalData)) = 0 THEN <<>>
    ELSE MapEntries(radarGroups)

(* ---------------------------- Biological ------------------------------- *)

\* the object getBiometricStats returns for nonempty filteredData
BiometricStatsOf(filteredData) ==
    [heartRate |->
        [avg |-> averageOf(filteredData, "heart_rate_resting"),
         range |-> <<minOf(filteredData, "heart_rate_resting", Len(filteredData)),
                     maxOf(filteredData, "heart_rate_resting", Len(filteredData))>>],
     hrv |-> [avg |-> averageOf(filteredData, "heart_rate_variability")],
     sleep |->
        [avg |-> averageOf(filteredData, "sleep_quality_score"),
         avgDuration |-> averageOf(filteredData, "sleep_duration")],
     stress |-> [avg |-> averageOf(filteredData, "stress_level")]]

\* Biological.getBiometricStats
getBiometricStats ==
    IF Len(getFilteredData(biologicalData)) = 0 THEN <<>>
    ELSE BiometricStatsOf(getFilteredData(biologicalData))

\* the Biological overview cards
BioStatCard(card, digits) == StatCard(getBiometricStats, card, digits)

\* faulty variant of calculateHarmonyScore: hrvScore is not clamped at 100
calculateHarmonyScoreUnclamped(data) ==
    LET hrvScore == Mul(Div(NumberOf(data, "heart_rate_variability"), FromInt(50)),
                        FromInt(100))
        sleepScore == Mul(Div(NumberOf(data, "sleep_quality_score"), FromInt(10)),
                          FromInt(100))
        stressScore == Mul(Div(Sub(FromInt(10), NumberOf(data, "stress_level")),
                               FromInt(10)),
                           FromInt(100))
    IN  Div(Add(Add(hrvScore, sleepScore), stressScore), FromInt(3))

\* faulty variant of calculateHarmonyScore: hrvScore is also floored at 0
calculateHarmonyScoreFloored(data) ==
    LET hrvScore == MathMax2(FromInt(0), MathMin2(FromInt(100),
                        Mul(Div(NumberOf(data, "heart_rate_variability"), FromInt(50)),
                            FromInt(100))))
        sleepScore == Mul(Div(NumberOf(data, "sleep_quality_score"), FromInt(10)),
                          FromInt(100))
        stressScore == Mul(Div(Sub(FromInt(10), NumberOf(data, "stress_level")),
                               FromInt(10)),
                           FromInt(100))
    IN  Div(Add(Add(hrvScore, sleepScore), stressScore), FromInt(3))

\* faulty variant of calculateHarmonyScore: stressScore is not inverted
calculateHarmonyScoreStressNotInverted(data) ==
    LET hrvScore == MathMin2(FromInt(100),
                        Mul(Div(NumberOf(data, "heart_rate_variability"), FromInt(50)),
                            FromInt(100)))
        sleepScore == Mul(Div(NumberOf(data, "sleep_quality_score"), FromInt(10)),
                          FromInt(100))
        stressScore == Mul(Div(NumberOf(data, "stress_level"), FromInt(10)),
                           FromInt(100))
    IN  Div(Add(Add(hrvScore, sleepScore), stressScore), FromInt(3))

\* Biological.calculateHarmonyScore
calculateHarmonyScore(data) ==
    LET hrvScore == MathMin2(FromInt(100),
                        Mul(Div(NumberOf(data, "heart_rate_variability"), FromInt(50)),
                            FromInt(100)))
        sleepScore == Mul(Div(NumberOf(data, "sleep_quality_score"), FromInt(10)),
                          FromInt(100))
        stressScore == Mul(Div(Sub(FromInt(10), NumberOf(data, "stress_level")),
                               FromInt(10)),
                           FromInt(100))
    IN  Div(Add(Add(hrvScore, sleepScore), stressScore), FromInt(3))

\* the property `as: data[key]` of an object literal; a property whose value is
\* undefined is left out, reading it yields undefined either way
PropAs(data, key, as) == IF key \in DOMAIN data THEN as :> data[key] ELSE <<>>

\* the object literal getHarmonyZones maps each record to
HarmonyZone(data) ==
    [location |-> getLocationName(Prop(data, "location_id")),
     date |-> formatMMMd(data.date),
     harmony_score |-> calculateHarmonyScore(data)]
        @@ PropAs(data, "stress_level", "stress_level")
        @@ PropAs(data, "sleep_quality_score", "sleep_quality")
        @@ PropAs(data, "heart_rate_variability", "hrv")

\* filteredData.map(data => ({location: ..., ...})): the array built from the
\* first i records
RECURSIVE MapHarmonyZone(_, _)
MapHarmonyZone(filteredData, i) ==
    IF i = 0 THEN <<>>
    ELSE Append(MapHarmonyZone(filteredData, i - 1), HarmonyZone(filteredData[i]))

\* Biological.getHarmonyZones
getHarmonyZones ==
    MapHarmonyZone(getFilteredData(biologicalData), Len(getFilteredData(biologicalData)))

\* const harmonyData = getHarmonyZones()
harmonyData == getHarmonyZones

\* Math.max(...arr.map(d => d[field])) over the first i elements; Math.max()
\* is -Infinity and an undefined argument makes the result NaN
RECURSIVE MathMaxOf(_, _, _)
MathMaxOf(arr, field, i) ==
    IF i = 0 THEN NegInfinity
    ELSE MathMax2(MathMaxOf(arr, field, i - 1), NumberOf(arr[i], field))

\* Math.min(...arr.map(d => d[field])) over the first i elements
RECURSIVE MathMinOf(_, _, _)
MathMinOf(arr, field, i) ==
    IF i = 0 THEN PosInfinity
    ELSE MathMin2(MathMinOf(arr, field, i - 1), NumberOf(arr[i], field))

\* faulty variant of findEqual: the last element whose field equals value (findLast)
RECURSIVE findLastEqual(_, _, _, _)
findLastEqual(arr, field, value, i) ==
    IF i > Len(arr) THEN 0
    ELSE LET later == findLastEqual(arr, field, value, i + 1)
         IN  IF later # 0 THEN later
             ELSE IF StrictEquals(NumberOf(arr[i], field), value) THEN i
             ELSE 0

\* arr.find(d => d[field] === value), scanning from index i: the index of the
\* element found, 0 for undefined
RECURSIVE findEqual(_, _, _, _)
findEqual(arr, field, value, i) ==
    IF i > Len(arr) THEN 0
    ELSE IF StrictEquals(NumberOf(arr[i], field), value) THEN i
    ELSE findEqual(arr, field, value, i + 1)

\* Math.max(...arr.map(d => d[field]))
MathMax(arr, field) == MathMaxOf(arr, field, Len(arr))

\* Math.min(...arr.map(d => d[field]))
MathMin(arr, field) == MathMinOf(arr, field, Len(arr))

\* const best = Math.max(...arr.map(d => d[field]));
\* arr.find(d => d[field] === best)
FindMax(arr, field) == findEqual(arr, field, MathMax(arr, field), 1)

\* const lowest = Math.min(...arr.map(d => d[field]));
\* arr.find(d => d[field] === lowest)
FindMin(arr, field) == findEqual(arr, field, MathMin(arr, field), 1)

\* Best Recovery: const bestHRV = Math.max(...harmonyData.map(d => d.hrv))
bestHRV == MathMax(harmonyData, "hrv")

\* Best Recovery: const bestLocation = harmonyData.find(d => d.hrv === bestHRV)
bestRecoveryLocation == FindMax(harmonyData, "hrv")

\* Best Sleep: const bestSleep = Math.max(...harmonyData.map(d => d.sleep_quality))
bestSleep == MathMax(harmonyData, "sleep_quality")

\* Best Sleep: const bestLocation = harmonyData.find(d => d.sleep_quality === bestSleep)
bestSleepLocation == FindMax(harmonyData, "sleep_quality")

\* Calmest Environment: const lowestStress = Math.min(...)
lowestStress == MathMin(harmonyData, "stress_level")

\* Calmest Environment: const calmestLocation = harmonyData.find(...)
calmestLocation == FindMin(harmonyData, "stress_level")

\* faulty variant of InsightCard: the found element is dereferenced without the
\* `bestLocation ? ... : ...` branch
InsightCardUnguarded(arr, found) ==
    IF found # 0 THEN [kind |-> "record", entry |-> arr[found]]
    ELSE [kind |-> "TypeError"]

\* return bestLocation ? (<div> ... </div>) : <p>No data available</p>
InsightCard(arr, found) ==
    IF found # 0 THEN [kind |-> "record", entry |-> arr[found]]
    ELSE [kind |-> "No data available"]

\* the three cards of the Insights Summary over harmonyData = arr
InsightCards(arr) ==
    [BestRecovery |-> InsightCard(arr, FindMax(arr, "hrv")),
     BestSleep |-> InsightCard(arr, FindMax(arr, "sleep_quality")),
     CalmestEnvironment |-> InsightCard(arr, FindMin(arr, "stress_level"))]

BestRecoveryCard == InsightCards(harmonyData).BestRecovery

BestSleepCard == InsightCards(harmonyData).BestSleep

CalmestEnvironmentCard == InsightCards(harmonyData).CalmestEnvironment

(* ---------------------------- Journal ---------------------------------- *)

\* the Average Mood expression:
\* journalEntries.reduce((sum, entry) => sum + (entry.mood_score || 0), 0)
\*     / journalEntries.length
averageMood == averageOf(journalEntries, "mood_score")

\* {( ... ).toFixed(1)}/10 in the Average Mood card
AverageMoodCard == toFixed(averageMood, 1)

\* const EMOTIONS
EMOTIONS ==
    <<"calm", "joy", "excitement", "fear", "anxiety", "fatigue", "wonder",
      "peace", "stress", "curiosity", "melancholy", "euphoria">>

\* the upper-case letters of the texts below and their lower-case forms; a text
\* (title, content, search query) is the sequence of its characters
UpperCase == [c \in {"A", "E", "G", "K", "L"} |->
                 CASE c = "A" -> "a" [] c = "E" -> "e" [] c = "G" -> "g"
                   [] c = "K" -> "k" [] c = "L" -> "l"]

\* String.prototype.toLowerCase
toLowerCase(text) ==
    [i \in DOMAIN text |->
        IF text[i] \in DOMAIN UpperCase THEN UpperCase[text[i]] ELSE text[i]]

\* String.prototype.includes
includes(text, part) ==
    \E i \in 0..(Len(text) - Len(part)) : SubSeq(text, i + 1, i + Len(part)) = part

\* Array.prototype.includes
arrayIncludes(arr, x) == \E i \in DOMAIN arr : arr[i] = x

\* the JournalEntry rows the Journal page is exercised with: a full entry, an
\* entry whose content matches in upper case, an entry with content only, and
\* an entry without location, content and mood
JournalEntryRows ==
    { [location_id |-> "loc1", date |-> [month |-> 6, day |-> 1],
       title |-> <<"L", "a", "k", "e">>, content |-> <<"c", "a", "l", "m">>,
       emotions |-> <<"calm", "joy", "wonder", "peace">>,
       mood_score |-> 8, highlight_moment |-> TRUE],
      [location_id |-> "loc2", date |-> [month |-> 7, day |-> 14],
       title |-> <<"G", "a", "l", "e">>,
       content |-> <<"a", " ", "L", "A", "K", "E">>,
       emotions |-> <<"fear", "anxiety", "stress", "calm">>,
       mood_score |-> 3, highlight_moment |-> FALSE],
      [location_id |-> "loc1", date |-> [month |-> 1, day |-> 31],
       content |-> <<"l", "e", "a", "k">>],
      [date |-> [month |-> 6, day |-> 1], title |-> <<"l", "a", "k", "e">>,
       emotions |-> <<"joy">>, highlight_moment |-> TRUE] }

\* what list('-date') resolves to: records in descending order of their date
SortedByDateDescending(data) ==
    \A i \in 1..(Len(data) - 1) : DateKey(data[i].date) >= DateKey(data[i + 1].date)

\* JournalEntry.list('-date')
JournalEntryLists ==
    {data \in SeqsUpTo(JournalEntryRows, MaxRecords) : SortedByDateDescending(data)}

\* Location.list('arrival_date') of the Journal page: no location, or two
JournalLocationLists ==
    {<<>>} \cup {<<a, b>> : a \in {l \in LocationPool : l.id = "loc1"},
                            b \in {l \in LocationPool : l.id = "loc2"}}

\* Journal.loadData after Promise.all resolved, delivering full journal entries
JournalPageLoadResolved == LoadJournal(JournalEntryLists, JournalLocationLists)

\* the values the emotion <Select> and the emotion badges are exercised with
EmotionChoices == {"all", "calm", "joy", "euphoria"}

\* onValueChange={setSelectedEmotion} and the onClick of an emotion badge
SetSelectedEmotion ==
    /\ page = "Journal"
    /\ ~isLoading
    /\ \E v \in EmotionChoices : selectedEmotion' = v
    /\ UNCHANGED <<page, locations, environmentalData, biologicalData,
                   journalEntries, selectedLocation, isLoading, fetches,
                   searchQuery, formVars, logged>>

\* the texts typed into the search box
SearchQueries == {<<>>, <<"l", "a", "k", "e">>, <<"A", "K">>, <<"z">>}

\* onChange={(e) => setSearchQuery(e.target.value)}
SetSearchQuery ==
    /\ page = "Journal"
    /\ ~isLoading
    /\ \E v \in SearchQueries : searchQuery' = v
    /\ UNCHANGED <<page, locations, environmentalData, biologicalData,
                   journalEntries, selectedLocation, isLoading, fetches,
                   selectedEmotion, formVars, logged>>

\* filter(entry => entry.emotions?.includes(selectedEmotion))
RECURSIVE filterByEmotion(_, _)
filterByEmotion(entries, emotion) ==
    IF entries = <<>> THEN <<>>
    ELSE LET rest == filterByEmotion(Tail(entries), emotion)
         IN  IF /\ "emotions" \in DOMAIN Head(entries)
                /\ arrayIncludes(Head(entries).emotions, emotion)
             THEN <<Head(entries)>> \o rest
             ELSE rest

\* entry[field]?.toLowerCase().includes(searchQuery.toLowerCase())
fieldIncludes(entry, field, query) ==
    /\ field \in DOMAIN entry
    /\ includes(toLowerCase(entry[field]), toLowerCase(query))

\* faulty variant of filterBySearch: the entry's text is not lower-cased
RECURSIVE filterBySearchCaseSensitive(_, _)
filterBySearchCaseSensitive(entries, query) ==
    IF entries = <<>> THEN <<>>
    ELSE LET rest == filterBySearchCaseSensitive(Tail(entries), query)
             entry == Head(entries)
         IN  IF \/ "title" \in DOMAIN entry
                   /\ includes(entry.title, toLowerCase(query))
                \/ "content" \in DOMAIN entry
                   /\ includes(entry.content, toLowerCase(query))
             THEN <<entry>> \o rest
             ELSE rest

\* filter(entry => title matches || content matches)
RECURSIVE filterBySearch(_, _)
filterBySearch(entries, query) ==
    IF entries = <<>> THEN <<>>
    ELSE LET rest == filterBySearch(Tail(entries), query)
         IN  IF \/ fieldIncludes(Head(entries), "title", query)
                \/ fieldIncludes(Head(entries), "content", query)
             THEN <<Head(entries)>> \o rest
             ELSE rest

\* Journal.getFilteredEntries
getFilteredEntries ==
    LET byLocation == IF selectedLocation # "all"
                      THEN filterByLocationId(journalEntries, selectedLocation)
                      ELSE journalEntries
        byEmotion == IF selectedEmotion # "all"
                     THEN filterByEmotion(byLocation, selectedEmotion)
                     ELSE byLocation
    IN  IF searchQuery # <<>>
        THEN filterBySearch(byEmotion, searchQuery)
        ELSE byEmotion

\* the Clear Filters button, rendered when filteredEntries.length === 0
ClearFilters ==
    /\ page = "Journal"
    /\ ~isLoading
    /\ Len(getFilteredEntries) = 0
    /\ selectedLocation' = "all"
    /\ selectedEmotion' = "all"
    /\ searchQuery' = <<>>
    /\ UNCHANGED <<page, locations, environmentalData, biologicalData,
                   journalEntries, isLoading, fetches, formVars, logged>>

\* filter(entry => entry.highlight_moment)
RECURSIVE filterHighlights(_)
filterHighlights(entries) ==
    IF entries = <<>> THEN <<>>
    ELSE IF "highlight_moment" \in DOMAIN Head(entries)
            /\ Head(entries).highlight_moment
         THEN <<Head(entries)>> \o filterHighlights(Tail(entries))
         ELSE filterHighlights(Tail(entries))

\* faulty variant of getHighlightMoments: over the filtered entries
getHighlightMomentsOfFiltered == filterHighlights(getFilteredEntries)

\* Journal.getHighlightMoments
getHighlightMoments == filterHighlights(journalEntries)

\* emotionCounts[emotion] = (emotionCounts[emotion] || 0) + 1 for the first i
\* emotions of an entry
RECURSIVE countEmotions(_, _, _)
countEmotions(emotionCounts, emotions, i) ==
    IF i = 0 THEN emotionCounts
    ELSE LET counts == countEmotions(emotionCounts, emotions, i - 1)
         IN  SetKey(counts, emotions[i],
                    (IF HasKey(counts, emotions[i])
                     THEN counts.at[emotions[i]] ELSE 0) + 1)

\* journalEntries.forEach(entry => entry.emotions?.forEach(...)) over the first
\* i entries
RECURSIVE emotionCountsOf(_, _)
emotionCountsOf(entries, i) ==
    IF i = 0 THEN EmptyObject
    ELSE LET counts == emotionCountsOf(entries, i - 1)
         IN  IF "emotions" \in DOMAIN entries[i]
             THEN countEmotions(counts, entries[i].emotions,
                                Len(entries[i].emotions))
             ELSE counts

\* pair inserted into the sorted pairs behind every pair whose count is not
\* smaller (the comparator b - a; Array.prototype.sort is stable)
RECURSIVE InsertByCount(_, _)
InsertByCount(sorted, pair) ==
    IF sorted = <<>> THEN <<pair>>
    ELSE IF Head(sorted).value >= pair.value
         THEN <<Head(sorted)>> \o InsertByCount(Tail(sorted), pair)
         ELSE <<pair>> \o sorted

\* .sort(([,a], [,b]) => b - a) of the first i pairs
RECURSIVE sortByCount(_, _)
sortByCount(pairs, i) ==
    IF i = 0 THEN <<>>
    ELSE InsertByCount(sortByCount(pairs, i - 1), pairs[i])

\* faulty variant of slice: nothing is cut off
sliceNothing(arr, begin, end) == arr

\* Array.prototype.slice(begin, end)
slice(arr, begin, end) ==
    SubSeq(arr, begin + 1, IF end < Len(arr) THEN end ELSE Len(arr))

\* the pairs after .sort(([,a], [,b]) => b - a).slice(0, 6)
sortAndSlice(pairs) == slice(sortByCount(pairs, Len(pairs)), 0, 6)

\* getEmotionStats over the given entries
emotionStatsOf(entries) ==
    sortAndSlice(ObjectEntries(emotionCountsOf(entries, Len(entries))))

\* Journal.getEmotionStats
getEmotionStats == emotionStatsOf(journalEntries)

(* ---------------------------- NewEntryForm ----------------------------- *)

\* longest run of emotions of EMOTIONS the form's badges are clicked on
MaxToggled == 3

\* most journal entries submitted and not rejected
MaxCreates == 2

\* NewEntryForm is rendered: the page is past its isLoading guard and the
\* dialog is open
FormMounted == page = "Journal" /\ ~isLoading /\ showNewEntry

\* the New Entry button: the dialog opens and mounts a new NewEntryForm
OpenNewEntry ==
    /\ page = "Journal"
    /\ ~isLoading
    /\ ~showNewEntry
    /\ showNewEntry' = TRUE
    /\ formData' = InitialFormData
    /\ UNCHANGED <<page, locations, environmentalData, biologicalData,
                   journalEntries, selectedLocation, isLoading, fetches,
                   filterVars, creating, created, calls, logged>>

\* the Cancel button (onClose) and onOpenChange(false): the dialog closes and
\* unmounts the form, whose state is gone
CloseNewEntry ==
    /\ FormMounted
    /\ showNewEntry' = FALSE
    /\ formData' = InitialFormData
    /\ UNCHANGED <<page, locations, environmentalData, biologicalData,
                   journalEntries, selectedLocation, isLoading, fetches,
                   filterVars, creating, created, calls, logged>>

\* what no form handler touches
FormFrame ==
    UNCHANGED <<page, locations, environmentalData, biologicalData,
                journalEntries, selectedLocation, isLoading, fetches,
                filterVars, showNewEntry, creating, created, calls, logged>>

\* onValueChange of the location <Select>:
\* setFormData(prev => ({...prev, location_id: value}))
SetFormLocation ==
    /\ FormMounted
    /\ \E i \in DOMAIN locations :
          formData' = [formData EXCEPT !.location_id = locations[i].id]
    /\ FormFrame

\* the titles typed into the form
FormTitles == {<<>>, <<"D", "a", "w", "n">>, <<"D", "u", "s", "k">>}

\* onChange of the title <Input>
SetFormTitle ==
    /\ FormMounted
    /\ \E value \in FormTitles : formData' = [formData EXCEPT !.title = value]
    /\ FormFrame

\* the contents typed into the form
FormContents == {<<>>, <<"f", "o", "g">>}

\* onChange of the content <Textarea>
SetFormContent ==
    /\ FormMounted
    /\ \E value \in FormContents : formData' = [formData EXCEPT !.content = value]
    /\ FormFrame

\* onChange of the mood range input: parseInt(e.target.value), min 1, max 10
SetFormMoodScore ==
    /\ FormMounted
    /\ \E value \in {1, 5, 10} : formData' = [formData EXCEPT !.mood_score = value]
    /\ FormFrame

\* onChange of the highlight checkbox
SetFormHighlight ==
    /\ FormMounted
    /\ \E checked \in BOOLEAN :
          formData' = [formData EXCEPT !.highlight_moment = checked]
    /\ FormFrame

\* prev.emotions.filter(e => e !== emotion)
RECURSIVE without(_, _)
without(emotions, emotion) ==
    IF emotions = <<>> THEN <<>>
    ELSE IF Head(emotions) # emotion
         THEN <<Head(emotions)>> \o without(Tail(emotions), emotion)
         ELSE without(Tail(emotions), emotion)

\* faulty variant of toggled: the emotion is appended whether selected or not
toggledAppending(prev, emotion) ==
    [prev EXCEPT !.emotions = Append(prev.emotions, emotion)]

\* the updater toggleEmotion passes to setFormData
toggled(prev, emotion) ==
    [prev EXCEPT !.emotions = IF arrayIncludes(prev.emotions, emotion)
                              THEN without(prev.emotions, emotion)
                              ELSE Append(prev.emotions, emotion)]

\* the emotion badges clicked on
ToggledEmotions == {EMOTIONS[i] : i \in 1..MaxToggled}

\* NewEntryForm.toggleEmotion, the onClick of an emotion badge
toggleEmotion ==
    /\ FormMounted
    /\ \E emotion \in ToggledEmotions : formData' = toggled(formData, emotion)
    /\ FormFrame

\* faulty variant of Payload: the form's initial values are sent
PayloadInitial(form) == InitialFormData

\* the argument handleSubmit gives JournalEntry.create
Payload(form) == form

\* the required location, date, title and content are filled in: the browser
\* lets the form submit
RequiredFilled(form) ==
    /\ form.location_id # ""
    /\ form.title # <<>>
    /\ form.content # <<>>

\* NewEntryForm.handleSubmit up to its await: JournalEntry.create(formData)
handleSubmit ==
    /\ FormMounted
    /\ RequiredFilled(formData)
    /\ Len(creating) + Len(created) < MaxCreates
    /\ creating' = Append(creating, Payload(formData))
    /\ UNCHANGED <<page, locations, environmentalData, biologicalData,
                   journalEntries, selectedLocation, isLoading, fetches,
                   filterVars, showNewEntry, formData, created, calls, logged>>

\* handleSubmit after JournalEntry.create resolved: onSave() is loadData, which
\* sets isLoading and issues its fetches before it awaits; onClose() closes
\* the dialog; the page renders its skeleton, which unmounts the form
CreateResolved ==
    /\ page = "Journal"
    /\ \E k \in DOMAIN creating :
          /\ created' = Append(created, creating[k])
          /\ creating' = Returned(creating, k)
    /\ isLoading' = TRUE
    /\ fetches' = Append(fetches, NewInvocation("Journal"))
    /\ showNewEntry' = FALSE
    /\ formData' = InitialFormData
    /\ calls' = <<"onSave", "onClose">>
    /\ UNCHANGED <<page, locations, environmentalData, biologicalData,
                   journalEntries, selectedLocation, filterVars, logged>>

\* handleSubmit after JournalEntry.create rejected: the catch logs
CreateRejected ==
    /\ page = "Journal"
    /\ \E k \in DOMAIN creating : creating' = Returned(creating, k)
    /\ calls' = <<"console.error">>
    /\ logged' = logged \cup {"Error creating journal entry"}
    /\ UNCHANGED <<page, locations, environmentalData, biologicalData,
                   journalEntries, selectedLocation, isLoading, fetches,
                   filterVars, showNewEntry, formData, created>>

\* a NewEntryForm has just mounted in the dialog of a loaded Journal page
MountedNewEntryForm ==
    /\ page = "Journal"
    /\ locations \in JournalLocationLists
    /\ environmentalData = <<>>
    /\ biologicalData = <<>>
    /\ journalEntries = <<>>
    /\ selectedLocation = "all"
    /\ isLoading = FALSE
    /\ fetches = <<>>
    /\ selectedEmotion = "all"
    /\ searchQuery = <<>>
    /\ showNewEntry = TRUE
    /\ formData = InitialFormData
    /\ creating = <<>>
    /\ created = <<>>
    /\ calls = <<>>
    /\ logged = {}

\* the rows and locations the provider holds while entries are created
ReloadEntryLists ==
    {<<>>} \cup {<<r>> : r \in {r \in JournalEntryRows : "content" \notin DOMAIN r}}

ReloadLocationLists ==
    {<<l>> : l \in {l \in LocationPool : l.id = "loc1"}}

\* Journal.loadData after Promise.all resolved, while entries are created
JournalReloadResolved == LoadJournal(ReloadEntryLists, ReloadLocationLists)

(* ---------------------------- JourneyMap ------------------------------- *)

\* useState(null) of selectedLocation
Null == "<null>"

\* JourneyMap has just mounted
MountedJourneyMap ==
    /\ page = "JourneyMap"
    /\ locations = <<>>
    /\ environmentalData = <<>>
    /\ biologicalData = <<>>
    /\ journalEntries = <<>>
    /\ selectedLocation = Null
    /\ isLoading = TRUE
    /\ fetches = <<NewInvocation("JourneyMap")>>
    /\ InitialJournalState

\* JourneyMap.loadData after Promise.all resolved
JourneyLoadResolved ==
    /\ page = "JourneyMap"
    /\ \E k \in DOMAIN fetches :
          /\ AllResolved(fetches[k])
          /\ fetches' = Returned(fetches, k)
    /\ locations' \in JourneyLocationLists
    /\ environmentalData' \in JourneyEnvLists
    /\ journalEntries' \in JourneyJournalLists
    /\ isLoading' = FALSE
    /\ UNCHANGED <<page, biologicalData, selectedLocation, filterVars,
                   formVars, logged>>

\* new Date(a.arrival_date) - new Date(b.arrival_date) <= 0
ArrivesNoLater(a, b) == DateKey(a.arrival_date) <= DateKey(b.arrival_date)

\* loc inserted into the sorted sequence behind every element that arrives no
\* later (Array.prototype.sort is stable)
RECURSIVE InsertByArrival(_, _)
InsertByArrival(sorted, loc) ==
    IF sorted = <<>> THEN <<loc>>
    ELSE IF ArrivesNoLater(Head(sorted), loc)
         THEN <<Head(sorted)>> \o InsertByArrival(Tail(sorted), loc)
         ELSE <<loc>> \o sorted

\* the array after .sort((a, b) => new Date(a.arrival_date) - new Date(b.arrival_date))
\* has sorted its first i elements
RECURSIVE sortByArrival(_, _)
sortByArrival(locs, i) ==
    IF i = 0 THEN <<>>
    ELSE InsertByArrival(sortByArrival(locs, i - 1), locs[i])

\* the value createJourneyPath returns: the positions of the sorted locations
createJourneyPath ==
    LET sorted == sortByArrival(locations, Len(locations))
    IN  [i \in DOMAIN sorted |-> <<sorted[i].latitude, sorted[i].longitude>>]

\* locations.reduce((sum, loc) => sum + loc[field], 0) over the first i locations
RECURSIVE reduceLocations(_, _)
reduceLocations(field, i) ==
    IF i = 0 THEN 0 ELSE reduceLocations(field, i - 1) + locations[i][field]

\* JourneyMap.getMapCenter
getMapCenter ==
    IF Len(locations) = 0 THEN <<FromInt(20), FromInt(0)>>
    ELSE <<Num(reduceLocations("latitude", Len(locations)), Len(locations)),
           Num(reduceLocations("longitude", Len(locations)), Len(locations))>>

\* JourneyMap.getLocationJournalEntries
getLocationJournalEntries(locationId) ==
    filterByLocationId(journalEntries, locationId)

\* a render of JourneyMap past its isLoading guard with locations.length > 0:
\* <MapContainer center={getMapCenter()}> and
\* <Polyline positions={createJourneyPath()}>, whose locations.sort(...)
\* sorts the array held in state in place
JourneyMapRender ==
    /\ page = "JourneyMap"
    /\ ~isLoading
    /\ Len(locations) > 0
    /\ locations' = sortByArrival(locations, Len(locations))
    /\ UNCHANGED <<page, environmentalData, biologicalData, journalEntries,
                   selectedLocation, isLoading, fetches, filterVars, formVars, logged>>

\* click: () => setSelectedLocation(location) on a marker or a list item of the
\* rendered page
JourneySelectLocation ==
    /\ page = "JourneyMap"
    /\ ~isLoading
    /\ locations = sortByArrival(locations, Len(locations))
    /\ \E i \in DOMAIN locations : selectedLocation' = locations[i]
    /\ UNCHANGED <<page, locations, environmentalData, biologicalData,
                   journalEntries, isLoading, fetches, filterVars, formVars, logged>>

(* ---------------------------- DataArchive ------------------------------ *)

\* the sequences the four lists of DataArchive.loadAllData deliver
ArchiveBioLists ==
    SeqsUpTo({d \in BioPool : OrZero(d, "heart_rate_resting") = 60},
             MaxRecords - 1)

ArchiveEnvLists ==
    SeqsUpTo({d \in EnvPool : d.temperature_avg = 10}, MaxRecords - 1)

ArchiveJournalLists ==
    SeqsUpTo({e \in JournalPool : "title" \in DOMAIN e}, MaxRecords - 1)

\* DataArchive has just mounted; its data object holds the four collections
MountedDataArchive ==
    /\ page = "DataArchive"
    /\ locations = <<>>
    /\ environmentalData = <<>>
    /\ biologicalData = <<>>
    /\ journalEntries = <<>>
    /\ selectedLocation = "all"
    /\ isLoading = TRUE
    /\ fetches = <<NewInvocation("DataArchive")>>
    /\ InitialJournalState

\* DataArchive.loadAllData after Promise.all resolved:
\* setData({ locations, biological, environmental, journal })
ArchiveLoadResolved ==
    /\ page = "DataArchive"
    /\ \E k \in DOMAIN fetches :
          /\ AllResolved(fetches[k])
          /\ fetches' = Returned(fetches, k)
    /\ locations' \in LocationLists
    /\ biologicalData' \in ArchiveBioLists
    /\ environmentalData' \in ArchiveEnvLists
    /\ journalEntries' \in ArchiveJournalLists
    /\ isLoading' = FALSE
    /\ UNCHANGED <<page, selectedLocation, filterVars, formVars, logged>>

(* ---------------------------- the page view ---------------------------- *)

\* what the isLoading guard returns: the pulsing placeholders
Skeleton == [kind |-> "skeleton"]

\* what a page computes from its collections when it renders past the guard
PageAggregates ==
    CASE page = "Environmental" -> getMetricStats
      [] page = "Biological" -> getBiometricStats
      [] page = "Journal" -> AverageMoodCard
      [] page = "JourneyMap" -> getMapCenter
      [] page = "DataArchive" ->
            <<Len(locations), Len(biologicalData), Len(environmentalData),
              Len(journalEntries)>>

\* a render: if (isLoading) return the skeleton; otherwise the aggregates
PageView ==
    IF isLoading THEN Skeleton
    ELSE [kind |-> "page", aggregates |-> PageAggregates]

(* ---------------------------- specifications -------------------------- *)

\* the application: whichever page is mounted
Next ==
    \/ FetchResolved
    \/ FetchRejected
    \/ EnvLoadResolved
    \/ BioLoadResolved
    \/ JournalLoadResolved
    \/ LoadRejected
    \/ SetSelectedLocation

Spec == Init /\ [][Next]_vars

\* the Environmental page alone
NextEnvironmental ==
    \/ FetchResolved
    \/ FetchRejected
    \/ EnvLoadResolved
    \/ LoadRejected
    \/ SetSelectedLocation

SpecEnvironmental == Mounted("Environmental") /\ [][NextEnvironmental]_vars

\* the Biological page alone
NextBiological ==
    \/ FetchResolved
    \/ FetchRejected
    \/ BioLoadResolved
    \/ LoadRejected
    \/ SetSelectedLocation

SpecBiological == Mounted("Biological") /\ [][NextBiological]_vars

\* the JourneyMap page alone
NextJourneyMap ==
    \/ FetchResolved
    \/ FetchRejected
    \/ JourneyLoadResolved
    \/ LoadRejected
    \/ JourneyMapRender
    \/ JourneySelectLocation

SpecJourneyMap == MountedJourneyMap /\ [][NextJourneyMap]_vars

\* every page from its mount to the end of its loadData
InitLoading ==
    \/ \E p \in Pages : Mounted(p)
    \/ MountedJourneyMap
    \/ MountedDataArchive

NextLoading ==
    \/ FetchResolved
    \/ FetchRejected
    \/ EnvLoadResolved
    \/ BioLoadResolved
    \/ JournalLoadResolved
    \/ JourneyLoadResolved
    \/ ArchiveLoadResolved
    \/ LoadRejected

SpecLoading == InitLoading /\ [][NextLoading]_vars

\* the Journal page with its filters
NextJournal ==
    \/ FetchResolved
    \/ FetchRejected
    \/ JournalPageLoadResolved
    \/ LoadRejected
    \/ SetSelectedLocation
    \/ SetSelectedEmotion
    \/ SetSearchQuery
    \/ ClearFilters

SpecJournal == Mounted("Journal") /\ [][NextJournal]_vars

\* the NewEntryForm component from its mount
NextNewEntryForm ==
    \/ SetFormLocation
    \/ SetFormTitle
    \/ SetFormContent
    \/ SetFormMoodScore
    \/ SetFormHighlight
    \/ toggleEmotion

SpecNewEntryForm == MountedNewEntryForm /\ [][NextNewEntryForm]_vars

\* the Journal page with its dialog: entries are written, created and reloaded
NextJournalEntry ==
    \/ FetchResolved
    \/ FetchRejected
    \/ JournalReloadResolved
    \/ LoadRejected
    \/ OpenNewEntry
    \/ CloseNewEntry
    \/ SetFormLocation
    \/ SetFormTitle
    \/ SetFormContent
    \/ handleSubmit
    \/ CreateResolved
    \/ CreateRejected

SpecJournalEntry == Mounted("Journal") /\ [][NextJournalEntry]_vars

\* the fetches of a loadData settle, and the continuation of a settled
\* Promise.all runs: every page's loadData under these two conditions
LoadReturns ==
    \/ EnvLoadResolved
    \/ BioLoadResolved
    \/ JournalLoadResolved
    \/ JourneyLoadResolved
    \/ ArchiveLoadResolved
    \/ LoadRejected

FairSpecLoading ==
    /\ SpecLoading
    /\ WF_vars(FetchResolved \/ FetchRejected)
    /\ WF_vars(LoadReturns)

(* ---------------------------- claims ----------------------------------- *)

\* the page is past its isLoading guard: the derivations are computed and shown
Rendered(p) == page = p /\ ~isLoading

\* the ids a lookup may be given: ids of locations, an orphaned id, undefined
LookupIds == LocationIds \cup {OrphanId, Undefined}

\* the indices of the records of data whose location_id is strictly equal to X
IndicesAt(data, X) ==
    {i \in DOMAIN data : "location_id" \in DOMAIN data[i] /\ data[i].location_id = X}

\* the k-th smallest element of the index set idx
KthIndex(idx, k) == CHOOSE i \in idx : Cardinality({j \in idx : j < i}) = k - 1

\* result holds exactly the records of data at the indices idx, each once, in
\* their order in data
IsSubsequenceAt(result, data, idx) ==
    /\ Len(result) = Cardinality(idx)
    /\ \A k \in 1..Len(result) : result[k] = data[KthIndex(idx, k)]

\* the sum over the indices idx of data[i][field], a missing field counting 0
RECURSIVE IndexSum(_, _, _)
IndexSum(data, idx, field) ==
    IF idx = {} THEN 0
    ELSE LET i == CHOOSE j \in idx : TRUE
         IN  (IF field \in DOMAIN data[i] THEN data[i][field] ELSE 0)
                 + IndexSum(data, idx \ {i}, field)

\* the arithmetic mean over the indices idx, a missing field counting 0
MeanAt(data, idx, field) == Num(IndexSum(data, idx, field), Cardinality(idx))

\* C1: getLocationName returns the name of the first location whose id equals
\* the given id, and "Unknown Location" when no location has that id (an
\* orphaned id, null or undefined included); it is defined for every id.
C1_ResolveLocationName ==
    \A id \in LookupIds :
        LET matches == {i \in DOMAIN locations : locations[i].id = id}
        IN  getLocationName(id) =
                IF matches = {} THEN "Unknown Location"
                ELSE locations[CHOOSE i \in matches : \A j \in matches : i <= j].name

\* C1 witness: two locations share an id under different names and the first
\* one's name is returned, while an orphaned and an undefined id resolve to
\* the sentinel
C1_Witness ==
    /\ ~isLoading
    /\ Len(locations) = 2
    /\ locations[1].id = locations[2].id
    /\ locations[1].name # locations[2].name
    /\ getLocationName(locations[2].id) = locations[1].name
    /\ getLocationName(OrphanId) = "Unknown Location"
    /\ getLocationName(Undefined) = "Unknown Location"

\* C2: with a location id X of the selector as scope, getFilteredData (and
\* JourneyMap's getLocationEnvironmentalData(X)) returns exactly the records
\* whose location_id equals X, each once, in their original order; it is
\* empty when none matches.
C2_FilterBySpecificLocation ==
    /\ selectedLocation # "all" =>
         /\ IsSubsequenceAt(getFilteredData(environmentalData), environmentalData,
                            IndicesAt(environmentalData, selectedLocation))
         /\ IsSubsequenceAt(getFilteredData(biologicalData), biologicalData,
                            IndicesAt(biologicalData, selectedLocation))
    /\ \A X \in SelectItems \ {"all"} :
         IsSubsequenceAt(getLocationEnvironmentalData(X), environmentalData,
                         IndicesAt(environmentalData, X))

\* C2 witness: a location is selected, one of two loaded records is at it and
\* the other one has no location_id; the result is the matching record alone
C2_Witness ==
    /\ Rendered("Environmental")
    /\ selectedLocation # "all"
    /\ Len(environmentalData) = 2
    /\ "location_id" \notin DOMAIN environmentalData[1]
    /\ Prop(environmentalData[2], "location_id") = selectedLocation
    /\ getFilteredData(environmentalData) = <<environmentalData[2]>>

\* C3: with scope "all" getFilteredData returns the loaded collection itself,
\* the same records in the same order.
C3_FilterAll ==
    selectedLocation = "all" =>
        /\ getFilteredData(environmentalData) = environmentalData
        /\ getFilteredData(biologicalData) = biologicalData

\* C3 witness: scope "all" over two records, the first one orphaned and the
\* second one at a loaded location, returns both in order
C3_Witness ==
    /\ Rendered("Biological")
    /\ selectedLocation = "all"
    /\ Len(biologicalData) = 2
    /\ Prop(biologicalData[1], "location_id") \in LocationIds \ SelectItems
    /\ Prop(biologicalData[2], "location_id") \in SelectItems
    /\ getFilteredData(biologicalData) = biologicalData

\* the four environmental averages of stats are the zero-substituted means of env
EnvAveragesAreMeans(env, stats) ==
    Len(env) > 0 =>
        /\ stats.temperature.avg = MeanAt(env, DOMAIN env, "temperature_avg")
        /\ stats.humidity.avg = MeanAt(env, DOMAIN env, "humidity")
        /\ stats.light.avg = MeanAt(env, DOMAIN env, "light_exposure")
        /\ stats.airQuality.avg = MeanAt(env, DOMAIN env, "air_quality_index")

\* the five biometric averages of stats are the zero-substituted means of bio
BioAveragesAreMeans(bio, stats) ==
    Len(bio) > 0 =>
        /\ stats.heartRate.avg = MeanAt(bio, DOMAIN bio, "heart_rate_resting")
        /\ stats.hrv.avg = MeanAt(bio, DOMAIN bio, "heart_rate_variability")
        /\ stats.sleep.avg = MeanAt(bio, DOMAIN bio, "sleep_quality_score")
        /\ stats.sleep.avgDuration = MeanAt(bio, DOMAIN bio, "sleep_duration")
        /\ stats.stress.avg = MeanAt(bio, DOMAIN bio, "stress_level")

\* C4: for a nonempty scoped record sequence every summary average equals the
\* sum of the field over all records, a missing value counting 0, divided by
\* the number of records (records without the field stay in the count).
C4_AverageIsZeroSubstitutedMean ==
    /\ EnvAveragesAreMeans(getFilteredData(environmentalData), getMetricStats)
    /\ BioAveragesAreMeans(getFilteredData(biologicalData), getBiometricStats)
    /\ Len(journalEntries) > 0 =>
          averageMood = MeanAt(journalEntries, DOMAIN journalEntries, "mood_score")

\* C4 witness: of two scoped environmental records one has no light_exposure;
\* the light average is half the other record's reading
HalvedLightAverage(env, stats) ==
    /\ Len(env) = 2
    /\ "light_exposure" \notin DOMAIN env[1]
    /\ "light_exposure" \in DOMAIN env[2]
    /\ stats.light.avg = Num(env[2].light_exposure, 2)

C4_Witness ==
    /\ Rendered("Environmental")
    /\ HalvedLightAverage(getFilteredData(environmentalData), getMetricStats)

\* the values of field over the records of data that carry it
ValuesOf(data, field) == {data[i][field] : i \in {j \in DOMAIN data : field \in DOMAIN data[j]}}

SetMin(S) == CHOOSE x \in S : \A y \in S : x <= y

SetMax(S) == CHOOSE x \in S : \A y \in S : y <= x

\* stats.temperature.min and .max are the least temperature_min and the
\* greatest temperature_max carried by the records of env
TrueMinMax(env, stats) ==
    Len(env) > 0 =>
        /\ ValuesOf(env, "temperature_min") # {} =>
               stats.temperature.min = FromInt(SetMin(ValuesOf(env, "temperature_min")))
        /\ ValuesOf(env, "temperature_max") # {} =>
               stats.temperature.max = FromInt(SetMax(ValuesOf(env, "temperature_max")))

\* C5: for a nonempty scoped environmental record sequence the temperature
\* summary's min is the least temperature_min the records carry and its max
\* the greatest temperature_max they carry.
C5_TrueMinMax ==
    TrueMinMax(getFilteredData(environmentalData), getMetricStats)

\* the four overview cards of Environmental over stats = getMetricStats()
EnvSummaryCards(stats) ==
    {StatCard(stats, "temperature", 1), StatCard(stats, "humidity", 0),
     StatCard(stats, "light", 0), StatCard(stats, "airQuality", 0)}

\* the four overview cards of Biological over stats = getBiometricStats()
BioSummaryCards(stats) ==
    {StatCard(stats, "heartRate", 0), StatCard(stats, "hrv", 0),
     StatCard(stats, "sleep", 1), StatCard(stats, "stress", 1)}

\* the text every summary card of the rendered page shows
SummaryCards ==
    CASE page = "Environmental" -> EnvSummaryCards(getMetricStats)
      [] page = "Biological" -> BioSummaryCards(getBiometricStats)
      [] page = "Journal" -> {AverageMoodCard}

\* the record sequence the rendered page summarizes
SummarizedRecords ==
    CASE page = "Environmental" -> getFilteredData(environmentalData)
      [] page = "Biological" -> getFilteredData(biologicalData)
      [] page = "Journal" -> journalEntries

\* C6: when the summarized record sequence is empty, no summary card of the
\* rendered page (environmental stats, biometric stats, average mood) shows
\* NaN or a number: each shows no reading.
C6_EmptyShowsNoReading ==
    (~isLoading /\ Len(SummarizedRecords) = 0) =>
        \A card \in SummaryCards : card.kind = "blank"

\* the resolved location name of a record
ResolvedName(d) == getLocationName(Prop(d, "location_id"))

\* the indices of the records of data whose resolved name is name
MembersOf(data, name) == {i \in DOMAIN data : ResolvedName(data[i]) = name}

\* the five radar metrics: group array, record field
RadarMetrics ==
    { <<"temperature", "temperature_avg">>, <<"humidity", "humidity">>,
      <<"light", "light_exposure">>, <<"airQuality", "air_quality_index">>,
      <<"noise", "noise_level">> }

\* groups holds one group per resolved name of env, each metric array
\* averaging to the mean over the records of that name, and radar carries
\* the humidity mean
GroupsAreMeans(env, groups, radar) ==
    /\ {groups[k].key : k \in DOMAIN groups} = {ResolvedName(env[i]) : i \in DOMAIN env}
    /\ \A k, j \in DOMAIN groups : groups[k].key = groups[j].key => k = j
    /\ \A k \in DOMAIN groups : \A m \in RadarMetrics :
           avg(groups[k].value[m[1]]) = MeanAt(env, MembersOf(env, groups[k].key), m[2])
    /\ \A k \in DOMAIN radar :
           radar[k].Humidity = MeanAt(env, MembersOf(env, radar[k].location), "humidity")

\* C7: prepareRadarData groups the scoped records by resolved location name:
\* there is one group per resolved name, and for each group and each of the
\* five metrics the group average is the arithmetic mean of the
\* zero-substituted field over exactly the records with that resolved name.
C7_GroupAverages ==
    GroupsAreMeans(getFilteredData(environmentalData), radarGroups, prepareRadarData)

\* C7 witness: two records at one location with temperature_avg 10 and 20, next
\* to a group of another name, give the group average 15
OneGroupOfTenAndTwenty(groups) ==
    /\ Len(groups) = 1
    /\ groups[1].key # "Unknown Location"
    /\ groups[1].value.temperature = <<10, 20>>
    /\ avg(groups[1].value.temperature) = FromInt(15)

C7_Witness ==
    /\ Rendered("Environmental")
    /\ Len(environmentalData) = 2
    /\ selectedLocation = "all"
    /\ OneGroupOfTenAndTwenty(radarGroups)

\* the index of the first record of data whose resolved name is name
FirstSeen(data, name) == SetMin(MembersOf(data, name))

\* the entries of radar are ordered by the first record of env of their name
InFirstEncounterOrder(env, radar) ==
    \A k, j \in DOMAIN radar :
        k < j => FirstSeen(env, radar[k].location) < FirstSeen(env, radar[j].location)

\* C8: the groups of prepareRadarData come in the order in which each location
\* name is first encountered in the scoped record sequence.
C8_FirstEncounterOrder ==
    InFirstEncounterOrder(getFilteredData(environmentalData), prepareRadarData)

\* the normalized radar metrics: group array, calibration ceiling
RadarScales ==
    { <<"temperature", 40>>, <<"light", 10000>>, <<"airQuality", 200>>,
      <<"noise", 100>> }

\* graph holds pairs <<value, normalized value>>: it is non-decreasing, and at
\* most 100 on the values >= 0
MonotoneClamped(graph) ==
    /\ \A p, q \in graph : Leq(p[1], q[1]) => Leq(p[2], q[2])
    /\ \A p \in graph : Leq(FromInt(0), p[1]) => Leq(p[2], FromInt(100))

\* the pairs <<v, normalize(v, maxScale)>> for the averages v of the metric
\* array of every group
NormalizeGraph(groups, metric, maxScale) ==
    {<<avg(groups[k].value[metric]), normalize(avg(groups[k].value[metric]), maxScale)>> :
        k \in DOMAIN groups}

\* normalize is non-decreasing and clamped for every metric's ceiling
NormalizeMonotoneClamped(groups) ==
    \A m \in RadarScales : MonotoneClamped(NormalizeGraph(groups, m[1], m[2]))

\* C9: for each calibration ceiling, normalize is non-decreasing in the value
\* (over the averages of the location groups) and at most 100 for every
\* value >= 0.
C9_NormalizeMonotoneClamped == NormalizeMonotoneClamped(radarGroups)

TwoSidesOfTheCeiling(groups, radar) ==
    /\ Len(radar) = 2
    /\ \E k, j \in DOMAIN groups :
          /\ avg(groups[k].value.light) = FromInt(5000)
          /\ avg(groups[j].value.light) = FromInt(20000)
          /\ radar[k].Light = FromInt(50)
          /\ radar[j].Light = FromInt(100)

\* C9 witness: two groups whose light averages lie on both sides of the
\* ceiling: the lower one is rescaled to 50, the higher one is clamped to 100
C9_Witness ==
    /\ Rendered("Environmental")
    /\ TwoSidesOfTheCeiling(radarGroups, prepareRadarData)

\* every normalized value of radar lies in [0,100]
NormalizedInRange(radar) ==
    \A k \in DOMAIN radar :
        \A x \in {radar[k].Temperature, radar[k].Light,
                  radar[k].AirQuality, radar[k].Noise} :
            Leq(FromInt(0), x) /\ Leq(x, FromInt(100))

\* C10: every normalized radar value (Temperature, Light, Air Quality, Noise)
\* of every location group lies in [0,100].
C10_NormalizedInRange == NormalizedInRange(prepareRadarData)

\* value * 100 / maxScale, and 100 when that exceeds 100
Rescaled(value, maxScale) ==
    IF value.n * 100 >= 100 * maxScale * value.d THEN FromInt(100)
    ELSE Num(value.n * 100, value.d * maxScale)

\* entry carries the calibrated means of the records of env at the indices
\* members
CalibratedEntry(entry, env, members) ==
    /\ entry.Temperature = Rescaled(MeanAt(env, members, "temperature_avg"), 40)
    /\ entry.Light = Rescaled(MeanAt(env, members, "light_exposure"), 10000)
    /\ entry.AirQuality = Rescaled(MeanAt(env, members, "air_quality_index"), 200)
    /\ entry.Noise = Rescaled(MeanAt(env, members, "noise_level"), 100)
    /\ entry.Humidity = MeanAt(env, members, "humidity")

RadarCalibrated(env, radar) ==
    \A k \in DOMAIN radar :
        CalibratedEntry(radar[k], env, MembersOf(env, radar[k].location))

\* C11: every entry of prepareRadarData carries, for its location group,
\* Temperature = the group's mean temperature_avg rescaled to the ceiling 40,
\* Light to 10000, Air Quality to 200 and Noise to 100, each cut off at 100,
\* and Humidity = the group's mean humidity itself, neither rescaled nor cut
\* off.
C11_RadarCalibration ==
    RadarCalibrated(getFilteredData(environmentalData), prepareRadarData)

HumidityAboveHundred(radar) ==
    \E k, j \in DOMAIN radar :
        /\ radar[k].Humidity = FromInt(104)
        /\ radar[k].Temperature = Num(-25, 1)
        /\ radar[j].Temperature = FromInt(50)
        /\ radar[j].Light = FromInt(100)
        /\ radar[j].AirQuality = FromInt(100)
        /\ radar[j].Noise = FromInt(100)
        /\ radar[j].Humidity = FromInt(80)

\* C11 witness: one group of a sub-zero day whose humidity 104 passes through
\* above 100, next to a group of a hot day whose light, air quality and noise
\* are cut off at 100 and whose temperature 20 is rescaled to 50
C11_Witness ==
    /\ Rendered("Environmental")
    /\ HumidityAboveHundred(prepareRadarData)

\* the three fields the harmony score reads
HarmonyFields == {"heart_rate_variability", "sleep_quality_score", "stress_level"}

\* (min(100, hrv/50*100) + sleep/10*100 + (10 - stress)/10*100) / 3 in integer
\* arithmetic over a common denominator
ExpectedHarmony(hrv, sleep, stress) ==
    Num((IF 2 * hrv > 100 THEN 100 ELSE 2 * hrv) + 10 * sleep + 10 * (10 - stress), 3)

\* zones[i].harmony_score is the harmony formula of bio[i]; it is NaN when
\* bio[i] lacks one of the three fields
HarmonyScoresAre(bio, zones) ==
    /\ Len(zones) = Len(bio)
    /\ \A i \in DOMAIN bio :
          IF HarmonyFields \subseteq DOMAIN bio[i]
          THEN /\ zones[i].harmony_score =
                     ExpectedHarmony(bio[i].heart_rate_variability,
                                     bio[i].sleep_quality_score, bio[i].stress_level)
               /\ (bio[i].heart_rate_variability = 50 /\ bio[i].sleep_quality_score = 10
                     /\ bio[i].stress_level = 0) => zones[i].harmony_score = FromInt(100)
               /\ (bio[i].heart_rate_variability = 0 /\ bio[i].sleep_quality_score = 0
                     /\ bio[i].stress_level = 10) => zones[i].harmony_score = FromInt(0)
          ELSE IsNaN(zones[i].harmony_score)

\* C12: the harmony score of every scoped biological record equals
\* (min(100, hrv/50*100) + sleep_quality_score/10*100
\*  + (10 - stress_level)/10*100) / 3; hrv = 50, sleep = 10, stress = 0 gives
\* exactly 100, and hrv = 0, sleep = 0, stress = 10 gives exactly 0.
C12_HarmonyScoreFormula ==
    HarmonyScoresAre(getFilteredData(biologicalData), harmonyData)

\* C12 witness: a rested day (50, 10, 0) scored 100 followed by an exhausted
\* day (0, 0, 10) scored 0
C12_Witness ==
    /\ Rendered("Biological")
    /\ Len(harmonyData) = 2
    /\ harmonyData[1].hrv = 50 /\ harmonyData[1].sleep_quality = 10
    /\ harmonyData[1].stress_level = 0
    /\ harmonyData[1].harmony_score = FromInt(100)
    /\ harmonyData[2].hrv = 0 /\ harmonyData[2].sleep_quality = 0
    /\ harmonyData[2].stress_level = 10
    /\ harmonyData[2].harmony_score = FromInt(0)

\* a < b on numbers that are not NaN
Less(a, b) == Leq(a, b) /\ a # b

\* the record carries the three harmony fields within their contract:
\* heart_rate_variability >= 0, sleep_quality_score and stress_level in 0..10
WithinHarmonyContract(r) ==
    /\ HarmonyFields \subseteq DOMAIN r
    /\ r.heart_rate_variability >= 0
    /\ r.sleep_quality_score \in 0..10
    /\ r.stress_level \in 0..10

HarmonyInRange(bio, zones) ==
    \A i \in DOMAIN bio :
        WithinHarmonyContract(bio[i]) =>
            /\ Leq(FromInt(0), zones[i].harmony_score)
            /\ Leq(zones[i].harmony_score, FromInt(100))

\* C13: for every scoped biological record with heart_rate_variability >= 0,
\* sleep_quality_score in [0,10] and stress_level in [0,10] the harmony score
\* lies in [0,100].
C13_HarmonyBound ==
    HarmonyInRange(getFilteredData(biologicalData), harmonyData)

\* C13 witness: a record within the contract whose variability 120 is far
\* above 50 is scored 60, next to records scored 0 and 100
C13_Witness ==
    /\ Rendered("Biological")
    /\ \E i \in DOMAIN harmonyData :
          /\ WithinHarmonyContract(getFilteredData(biologicalData)[i])
          /\ harmonyData[i].hrv = 120
          /\ harmonyData[i].harmony_score = FromInt(60)
    /\ \E i \in DOMAIN harmonyData :
          harmonyData[i].harmony_score \in {FromInt(0), FromInt(100)}

\* r with its heart_rate_variability replaced by hrv
WithHrv(r, hrv) == [r EXCEPT !.heart_rate_variability = hrv]

\* the upper clamp: from 50 upwards the score no longer depends on the
\* variability; no floor: below 0 the score falls under that of 0
OneSidedClamp(bio) ==
    \A i \in DOMAIN bio :
        HarmonyFields \subseteq DOMAIN bio[i] =>
            /\ bio[i].heart_rate_variability >= 50 =>
                  calculateHarmonyScore(bio[i]) = calculateHarmonyScore(WithHrv(bio[i], 50))
            /\ bio[i].heart_rate_variability < 0 =>
                  Less(calculateHarmonyScore(bio[i]),
                       calculateHarmonyScore(WithHrv(bio[i], 0)))

\* C14: for fixed sleep_quality_score and stress_level, every
\* heart_rate_variability >= 50 gives the harmony score of
\* heart_rate_variability = 50, while a negative heart_rate_variability gives
\* a score below that of heart_rate_variability = 0.
C14_OneSidedHrvClamp == OneSidedClamp(getFilteredData(biologicalData))

\* C14 witness: a record of variability 120 scored 60 like its twin of
\* variability 50, and a record of variability -10 scored 110/3, under the
\* 130/3 of its twin of variability 0
C14_Witness ==
    /\ Rendered("Biological")
    /\ Len(harmonyData) = 2
    /\ harmonyData[1].hrv = 120
    /\ harmonyData[1].harmony_score = FromInt(60)
    /\ calculateHarmonyScore(WithHrv(getFilteredData(biologicalData)[1], 50)) = FromInt(60)
    /\ harmonyData[2].hrv = -10
    /\ harmonyData[2].harmony_score = Num(110, 3)
    /\ calculateHarmonyScore(WithHrv(getFilteredData(biologicalData)[2], 0)) = Num(130, 3)

\* the three lookups of the Insights Summary over harmonyData = arr: selected
\* field, mode, element found
InsightLookups(arr) ==
    { <<"hrv", "max", FindMax(arr, "hrv")>>,
      <<"sleep_quality", "max", FindMax(arr, "sleep_quality")>>,
      <<"stress_level", "min", FindMin(arr, "stress_level")>> }

\* the indices of the elements of arr that carry field
Carrying(arr, field) == {i \in DOMAIN arr : field \in DOMAIN arr[i]}

\* the indices of the elements of arr whose field is the greatest (mode "max")
\* or the least (mode "min") among the elements that carry it
Extremes(arr, field, mode) ==
    {i \in Carrying(arr, field) :
        \A j \in Carrying(arr, field) :
            IF mode = "max" THEN arr[j][field] <= arr[i][field]
            ELSE arr[i][field] <= arr[j][field]}

\* whenever an element is found it is the first of the extremes, and one is
\* found when the sequence is nonempty and every element carries the field
FirstOfExtremes(arr, lookup) ==
    /\ lookup[3] # 0 => lookup[3] = SetMin(Extremes(arr, lookup[1], lookup[2]))
    /\ (Len(arr) > 0 /\ Carrying(arr, lookup[1]) = DOMAIN arr) => lookup[3] # 0

FirstOfTies(arr) ==
    \A lookup \in InsightLookups(arr) : FirstOfExtremes(arr, lookup)

\* C15: when several scoped records share the maximum hrv (Best Recovery),
\* the maximum sleep quality (Best Sleep) or the minimum stress level
\* (Calmest Environment), the record found is the first of them in sequence
\* order, never a later one.
C15_FirstOfTies == FirstOfTies(harmonyData)

\* C15 witness: two records at differently named locations tie on hrv, sleep
\* quality and stress level, and each of the three cards shows the first
C15_Witness ==
    /\ Rendered("Biological")
    /\ Len(harmonyData) = 2
    /\ harmonyData[1].location # harmonyData[2].location
    /\ \A i \in 1..2 : {"hrv", "sleep_quality", "stress_level"} \subseteq DOMAIN harmonyData[i]
    /\ harmonyData[1].hrv = harmonyData[2].hrv
    /\ harmonyData[1].sleep_quality = harmonyData[2].sleep_quality
    /\ harmonyData[1].stress_level = harmonyData[2].stress_level
    /\ \A card \in {BestRecoveryCard, BestSleepCard, CalmestEnvironmentCard} :
          card = [kind |-> "record", entry |-> harmonyData[1]]

\* over an empty arr the extreme values are the infinities, no lookup finds
\* an element, and every card shows the no-data text
NothingFoundIfEmpty(arr) ==
    Len(arr) = 0 =>
        /\ MathMax(arr, "hrv") = NegInfinity
        /\ MathMax(arr, "sleep_quality") = NegInfinity
        /\ MathMin(arr, "stress_level") = PosInfinity
        /\ \A lookup \in InsightLookups(arr) : lookup[3] = 0
        /\ InsightCards(arr) =
              [BestRecovery |-> [kind |-> "No data available"],
               BestSleep |-> [kind |-> "No data available"],
               CalmestEnvironment |-> [kind |-> "No data available"]]

\* C16: when the scoped record sequence is empty, the max and min lookups find
\* no record (undefined), and every card of the Insights Summary shows
\* "No data available": no error is raised and no default 0 is shown.
C16_EmptyFindsNothing == ~isLoading => NothingFoundIfEmpty(harmonyData)

\* C16 witness: records are loaded, none of them at the selected location, and
\* the Best Recovery card shows "No data available"
C16_Witness ==
    /\ Rendered("Biological")
    /\ Len(biologicalData) > 0
    /\ selectedLocation # "all"
    /\ Len(harmonyData) = 0
    /\ BestRecoveryCard.kind = "No data available"

\* an element is found, and its field is the extreme among the elements that
\* carry the field
FindsAnExtreme(arr, lookup) ==
    Len(arr) > 0 =>
        /\ lookup[3] # 0
        /\ lookup[3] \in Extremes(arr, lookup[1], lookup[2])

ExtremumOfNonempty(arr) ==
    \A lookup \in InsightLookups(arr) : FindsAnExtreme(arr, lookup)

\* C17: for every nonempty scoped record sequence each max (min) lookup finds
\* a record of the sequence whose selected value is greater (less) than or
\* equal to that of every other record, also when some records lack the
\* selected field.
C17_ExtremumOfNonempty == ExtremumOfNonempty(harmonyData)

\* output is input mapped record by record: as long as input, and output[i]
\* is input[i] with its date replaced by the label of that date and with the
\* resolved name of its location_id added
ProjectionOf(input, output) ==
    /\ Len(output) = Len(input)
    /\ \A i \in DOMAIN input :
          /\ DOMAIN output[i] = DOMAIN input[i] \cup {"date", "location"}
          /\ \A k \in DOMAIN input[i] \ {"date", "location"} : output[i][k] = input[i][k]
          /\ output[i].date = <<MonthNames[input[i].date.month], input[i].date.day>>
          /\ output[i].location = getLocationName(Prop(input[i], "location_id"))

\* zones is input mapped record by record to the harmony zone of the record
HarmonyProjectionOf(input, zones) ==
    /\ Len(zones) = Len(input)
    /\ \A i \in DOMAIN input :
          /\ zones[i].location = getLocationName(Prop(input[i], "location_id"))
          /\ zones[i].date = <<MonthNames[input[i].date.month], input[i].date.day>>
          /\ zones[i].harmony_score = calculateHarmonyScore(input[i])
          /\ Prop(zones[i], "hrv") = Prop(input[i], "heart_rate_variability")
          /\ Prop(zones[i], "sleep_quality") = Prop(input[i], "sleep_quality_score")
          /\ Prop(zones[i], "stress_level") = Prop(input[i], "stress_level")

\* C18: prepareTimeSeriesData (Environmental, Biological) and getHarmonyZones
\* map the scoped records in order: the output is as long as the scoped
\* input, output i is derived from input i alone, its location label is the
\* resolved name of input i's location_id, and nothing is reordered.
C18_ProjectionPreservesOrder ==
    /\ ProjectionOf(getFilteredData(environmentalData),
                    prepareTimeSeriesData(environmentalData))
    /\ ProjectionOf(getFilteredData(biologicalData),
                    prepareTimeSeriesData(biologicalData))
    /\ HarmonyProjectionOf(getFilteredData(biologicalData), getHarmonyZones)

\* out[1] and out[2] are the projections of two different records at
\* differently named locations, in the order of the input
TwoProjectedInOrder(input, out) ==
    /\ Len(input) = 2
    /\ input[1].date # input[2].date
    /\ out[1].date = formatMMMd(input[1].date)
    /\ out[2].date = formatMMMd(input[2].date)
    /\ out[1].location = "Unknown Location"
    /\ out[2].location \in LocationNames

\* C18 witness: two records of different days, the first one orphaned and the
\* second one at a loaded location, are projected in their order, on the
\* Biological time series and on the harmony zones
C18_Witness ==
    /\ Rendered("Biological")
    /\ TwoProjectedInOrder(getFilteredData(biologicalData),
                           prepareTimeSeriesData(biologicalData))
    /\ TwoProjectedInOrder(getFilteredData(biologicalData), getHarmonyZones)

\* C19: between two loads no step of a rendered page (its derivations
\* included) changes the content or the order of the Location,
\* EnvironmentalData, BiologicalData or JournalEntry collections held in
\* page state.
C19_CollectionsUnchangedBetweenLoads ==
    [][pending' = pending =>
          /\ locations' = locations
          /\ environmentalData' = environmentalData
          /\ biologicalData' = biologicalData
          /\ journalEntries' = journalEntries]_vars

\* what a completed derivation renders: nothing, a number, NaN, a record, or
\* the no-data text
CompletedKinds == {"blank", "number", "NaN", "record", "No data available"}

\* x is a number: finite, or NaN
FiniteOrNaN(x) == IsNaN(x) \/ x.d > 0

\* the outputs of the Environmental derivations are all defined
EnvironmentalCompletes(env, radar) ==
    /\ \A i \in DOMAIN env :
          ResolvedName(env[i]) \in LocationNames \cup {"Unknown Location"}
    /\ \A k \in DOMAIN radar :
          \A x \in {radar[k].Temperature, radar[k].Humidity, radar[k].Light,
                    radar[k].AirQuality, radar[k].Noise} : FiniteOrNaN(x)
    /\ Len(prepareTimeSeriesData(environmentalData)) = Len(env)

\* the outputs of the Biological derivations are all defined
BiologicalCompletes(bio, zones) ==
    /\ Len(zones) = Len(bio)
    /\ \A i \in DOMAIN zones :
          /\ zones[i].location \in LocationNames \cup {"Unknown Location"}
          /\ FiniteOrNaN(zones[i].harmony_score)
    /\ \A card \in {InsightCards(zones)[c] : c \in DOMAIN InsightCards(zones)} :
          card.kind \in CompletedKinds
    /\ Len(prepareTimeSeriesData(biologicalData)) = Len(bio)

\* C20: over records with missing numeric fields, over empty collections and
\* over location ids that match no location, every derivation of the rendered
\* page (name resolution, filtering, statistics, grouping, normalization,
\* harmony score, extremum lookup) completes with a defined output, a
\* degenerate one at worst (blank, NaN, "No data available", the sentinel
\* name), and none raises an exception.
C20_NoThrow ==
    ~isLoading =>
        /\ \A card \in SummaryCards : card.kind \in CompletedKinds
        /\ page = "Environmental" =>
              EnvironmentalCompletes(getFilteredData(environmentalData), prepareRadarData)
        /\ page = "Biological" =>
              BiologicalCompletes(getFilteredData(biologicalData), harmonyData)

\* C20 witness: the one scoped biological record has no location_id, no
\* heart_rate_resting and no sleep_quality_score: its name is the sentinel,
\* its harmony score is NaN, Best Sleep shows "No data available", and the
\* heart-rate card shows the zero-substituted average 0
C20_Witness ==
    /\ Rendered("Biological")
    /\ Len(harmonyData) = 1
    /\ harmonyData[1].location = "Unknown Location"
    /\ IsNaN(harmonyData[1].harmony_score)
    /\ BestSleepCard.kind = "No data available"
    /\ BestRecoveryCard.kind = "record"
    /\ BioStatCard("heartRate", 0) = [kind |-> "number", digits |-> 0, scaled |-> 0]

\* the collections of the mounted page
Collections == <<locations, environmentalData, biologicalData, journalEntries>>

\* the step is the return of a loadData invocation in the given condition
ReturnsWith(condition(_)) ==
    \E k \in DOMAIN fetches :
        /\ condition(fetches[k])
        /\ fetches' = Returned(fetches, k)

EveryFetchResolved(invocation) ==
    \A f \in Fetches(page) : invocation.status[f] = "resolved"

SomeFetchRejected(invocation) ==
    \E f \in Fetches(page) : invocation.status[f] = "rejected"

\* C21: on every page the collections are written only by a loadData whose
\* fetches have all resolved; a loadData with a rejected fetch returns with the
\* collections unchanged and isLoading false; and while isLoading is true the
\* page renders the skeleton, no aggregate
C21_LoadBarrier ==
    [][/\ Collections' # Collections => ReturnsWith(EveryFetchResolved)
       /\ ReturnsWith(SomeFetchRejected) =>
             Collections' = Collections /\ ~isLoading'
       /\ isLoading => PageView = Skeleton]_vars

\* a load of four fetches holds one resolved response back while another
\* fetch has rejected and a third is still pending: nothing is written yet
C21_Witness ==
    /\ page = "DataArchive"
    /\ Len(fetches) = 1
    /\ \E f, g, h \in Fetches(page) :
          /\ fetches[1].status[f] = "resolved"
          /\ fetches[1].status[g] = "rejected"
          /\ fetches[1].status[h] = "pending"
    /\ isLoading
    /\ Collections = <<<<>>, <<>>, <<>>, <<>>>>

\* two characters are the same letter, whatever their case
SameLetter(a, b) ==
    \/ a = b
    \/ a \in DOMAIN UpperCase /\ UpperCase[a] = b
    \/ b \in DOMAIN UpperCase /\ UpperCase[b] = a

\* the entry has the text field and the query occurs in it, case ignored
ContainsIgnoringCase(entry, field, query) ==
    /\ field \in DOMAIN entry
    /\ \E at \in 0..(Len(entry[field]) - Len(query)) :
          \A j \in 1..Len(query) : SameLetter(entry[field][at + j], query[j])

\* the entry satisfies every active filter
SatisfiesFilters(entry) ==
    /\ \/ selectedLocation = "all"
       \/ "location_id" \in DOMAIN entry /\ entry.location_id = selectedLocation
    /\ \/ selectedEmotion = "all"
       \/ /\ "emotions" \in DOMAIN entry
          /\ \E k \in DOMAIN entry.emotions : entry.emotions[k] = selectedEmotion
    /\ \/ searchQuery = <<>>
       \/ ContainsIgnoringCase(entry, "title", searchQuery)
       \/ ContainsIgnoringCase(entry, "content", searchQuery)

FilteredExactly(entries, filtered) ==
    /\ IsSubsequenceAt(filtered, entries,
                       {i \in DOMAIN entries : SatisfiesFilters(entries[i])})
    /\ (selectedLocation = "all" /\ selectedEmotion = "all" /\ searchQuery = <<>>)
          => filtered = entries

\* C25: getFilteredEntries is, in the order of journalEntries, exactly the
\* entries that satisfy every active filter (location id, emotion, search text
\* in title or content with case ignored); with the three filters cleared it
\* is journalEntries itself
C25_FilteredEntries ==
    (page = "Journal" /\ ~isLoading) =>
        FilteredExactly(journalEntries, getFilteredEntries)

\* all three filters are active and keep one of two entries, which matches the
\* lower-case query by its upper-case content alone
C25_Witness ==
    /\ page = "Journal" /\ ~isLoading
    /\ selectedLocation = "loc2"
    /\ selectedEmotion = "calm"
    /\ searchQuery = <<"l", "a", "k", "e">>
    /\ Len(journalEntries) = 2
    /\ Len(getFilteredEntries) = 1
    /\ getFilteredEntries[1].content = <<"a", " ", "L", "A", "K", "E">>

\* the two pair lists show the same emotions with the same counts in the same
\* order
SameStats(a, b) ==
    /\ Len(a) = Len(b)
    /\ \A i \in DOMAIN a : a[i].key = b[i].key /\ a[i].value = b[i].value

\* C26: a change of selectedLocation, selectedEmotion or searchQuery leaves the
\* highlight moments, the emotion statistics and the average mood as they were
C26_SummariesIgnoreFilters ==
    [][<<selectedLocation, filterVars>>' # <<selectedLocation, filterVars>>
          => /\ getHighlightMoments' = getHighlightMoments
             /\ \E entries \in {journalEntries'} :
                   /\ SameStats(emotionStatsOf(entries), getEmotionStats)
                   /\ toFixed(averageOf(entries, "mood_score"), 1)
                         = AverageMoodCard]_vars

\* the filters hide a highlight moment that the highlight list still shows
C26_Witness ==
    /\ page = "Journal" /\ ~isLoading
    /\ selectedLocation # "all"
    /\ selectedEmotion # "all"
    /\ searchQuery # <<>>
    /\ Len(getFilteredEntries) = 0
    /\ Len(getHighlightMoments) = 2
    /\ Len(getEmotionStats) > 0

\* the number of occurrences of the emotion in the emotions of all entries
Occurrences(entries, emotion) ==
    LET withEmotions == {i \in DOMAIN entries : "emotions" \in DOMAIN entries[i]}
        at == UNION {{<<i, k>> : k \in {k \in DOMAIN entries[i].emotions :
                                            entries[i].emotions[k] = emotion}} :
                     i \in withEmotions}
    IN  Cardinality(at)

EmotionStatsOf(entries, stats) ==
    LET emotionSet == {EMOTIONS[i] : i \in DOMAIN EMOTIONS}
        shown == {stats[i].key : i \in DOMAIN stats}
    IN  /\ Len(stats) <= 6
        /\ \A i, j \in DOMAIN stats : i # j => stats[i].key # stats[j].key
        /\ \A i \in 1..(Len(stats) - 1) : stats[i].value >= stats[i + 1].value
        /\ \A i \in DOMAIN stats :
              /\ stats[i].value = Occurrences(entries, stats[i].key)
              /\ stats[i].value > 0
        /\ \A e \in emotionSet \ shown, i \in DOMAIN stats :
              Occurrences(entries, e) <= stats[i].value
        /\ \A e \in emotionSet \ shown :
              Occurrences(entries, e) > 0 => Len(stats) = 6

\* C27: getEmotionStats is at most 6 pairs of distinct emotions in order of
\* non-increasing count, each count the number of occurrences of the emotion
\* in all journal entries, no emotion left out having a larger count than one
\* shown; entries without emotions add nothing
C27_EmotionStats ==
    (page = "Journal" /\ ~isLoading) =>
        EmotionStatsOf(journalEntries, getEmotionStats)

\* seven emotions occur, "calm" twice: six are shown, "calm" first
C27_Witness ==
    /\ page = "Journal" /\ ~isLoading
    /\ Len(getEmotionStats) = 6
    /\ getEmotionStats[1] = [key |-> "calm", value |-> 2]
    /\ Cardinality({e \in {EMOTIONS[i] : i \in DOMAIN EMOTIONS} :
                       Occurrences(journalEntries, e) > 0}) = 7

HeartRateConsistent(stats) ==
    /\ Leq(stats.heartRate.range[1], stats.heartRate.avg)
    /\ Leq(stats.heartRate.avg, stats.heartRate.range[2])

\* C29: for every nonempty scoped biological sequence the resting heart-rate
\* summary satisfies range[0] <= avg <= range[1]
C29_HeartRateRangeHoldsAverage ==
    (Rendered("Biological") /\ Len(getFilteredData(biologicalData)) > 0) =>
        HeartRateConsistent(getBiometricStats)

\* a record without heart_rate_resting counts as 0 next to one of 72: the
\* range is [0, 72] and the average 36
C29_Witness ==
    /\ Rendered("Biological")
    /\ Len(getFilteredData(biologicalData)) = 2
    /\ getBiometricStats.heartRate.range = <<FromInt(0), FromInt(72)>>
    /\ getBiometricStats.heartRate.avg = FromInt(36)

\* the sum of the sizes of the first i groups
RECURSIVE GroupSizeSum(_, _)
GroupSizeSum(groups, i) ==
    IF i = 0 THEN 0
    ELSE GroupSizeSum(groups, i - 1) + Len(groups[i].value.temperature)

RadarPartition(env, groups, radar) ==
    /\ Len(env) = 0 => radar = <<>>
    /\ Len(env) > 0 =>
          /\ Len(radar) = Len(groups)
          /\ \A i, j \in DOMAIN groups : i # j => groups[i].key # groups[j].key
          /\ {groups[i].key : i \in DOMAIN groups}
                = {ResolvedName(env[k]) : k \in DOMAIN env}
          /\ \A i \in DOMAIN groups :
                /\ radar[i].location = groups[i].key
                /\ \A metric \in DOMAIN groups[i].value :
                      Len(groups[i].value[metric])
                         = Cardinality(MembersOf(env, groups[i].key))
          /\ GroupSizeSum(groups, Len(groups)) = Len(env)
          /\ selectedLocation # "all" => Len(radar) <= 1

\* C30: prepareRadarData is empty for an empty scope; otherwise there is one
\* group per distinct resolved location name, every scoped record is in the
\* group of its resolved name and in no other, the group sizes add up to the
\* number of scoped records, and a scope of one location id gives at most one
\* group
C30_RadarPartition ==
    Rendered("Environmental") =>
        RadarPartition(getFilteredData(environmentalData), radarGroups,
                       prepareRadarData)

\* two records with different orphaned location ids share the one
\* "Unknown Location" group
C30_Witness ==
    /\ Rendered("Environmental")
    /\ selectedLocation = "all"
    /\ Len(environmentalData) = 2
    /\ Prop(environmentalData[1], "location_id")
          # Prop(environmentalData[2], "location_id")
    /\ Len(prepareRadarData) = 1
    /\ prepareRadarData[1].location = "Unknown Location"
    /\ Len(radarGroups[1].value.humidity) = 2

\* the emotions of the sequence as a set
SetOf(emotions) == {emotions[i] : i \in DOMAIN emotions}

\* the fields of the form besides emotions
OtherFields == DOMAIN InitialFormData \ {"emotions"}

EmotionSelection(form) ==
    /\ \A i, j \in DOMAIN form.emotions :
          i # j => form.emotions[i] # form.emotions[j]
    /\ SetOf(form.emotions) \subseteq SetOf(EMOTIONS)
    /\ \A emotion \in SetOf(EMOTIONS) :
          /\ SetOf(toggled(toggled(form, emotion), emotion).emotions)
                = SetOf(form.emotions)
          /\ SetOf(toggled(form, emotion).emotions) # SetOf(form.emotions)
          /\ \A field \in OtherFields : toggled(form, emotion)[field] = form[field]

\* C28: after any toggleEmotion calls from the empty selection,
\* formData.emotions has no duplicates and holds values of EMOTIONS only;
\* toggling an emotion twice restores the set of selected emotions, and a
\* toggle leaves every other form field as it was
C28_EmotionToggles == FormMounted => EmotionSelection(formData)

\* three emotions are selected in a form whose other fields have been edited
C28_Witness ==
    /\ FormMounted
    /\ Len(formData.emotions) = 3
    /\ formData.emotions[1] = "excitement"
    /\ formData.title # <<>>
    /\ formData.mood_score = 10
    /\ formData.highlight_moment

\* the continuation of a handleSubmit call ran in this step: its payload is no
\* longer awaited
SubmitSettled == Len(creating') < Len(creating)

\* C22: a submit hands the form state as it is to JournalEntry.create and does
\* nothing else; a reload is issued and an entry stored only by the
\* continuation of a create that resolved, which stores the awaited payload,
\* calls onSave then onClose and leaves the dialog closed and the page
\* loading; the continuation of a create that rejected logs the error and
\* neither reloads nor closes
C22_CreateIsPassThrough ==
    [][/\ Len(creating') > Len(creating) =>
             /\ creating' = Append(creating, formData)
             /\ UNCHANGED <<fetches, isLoading, showNewEntry, created, formData>>
       /\ Len(fetches') > Len(fetches) \/ created' # created =>
             /\ SubmitSettled
             /\ \E k \in DOMAIN creating :
                   /\ created' = Append(created, creating[k])
                   /\ creating' = Returned(creating, k)
             /\ Len(fetches') = Len(fetches) + 1
             /\ calls' = <<"onSave", "onClose">>
             /\ isLoading' /\ ~showNewEntry'
       /\ SubmitSettled /\ created' = created =>
             /\ UNCHANGED <<fetches, isLoading, showNewEntry, journalEntries>>
             /\ calls' = <<"console.error">>
             /\ "Error creating journal entry" \in logged']_vars

\* after a rejected create, a second submit of the edited form was stored as
\* written and its continuation has reloaded and closed the dialog
C22_Witness ==
    /\ page = "Journal"
    /\ "Error creating journal entry" \in logged
    /\ Len(created) = 1
    /\ created[1].title = <<"D", "u", "s", "k">>
    /\ created[1].content = <<"f", "o", "g">>
    /\ created[1].location_id = "loc1"
    /\ calls = <<"onSave", "onClose">>
    /\ isLoading /\ ~showNewEntry
    /\ Len(fetches) = 1

\* C23: on the Journal page isLoading is false only when no loadData is in
\* flight, and once no loadData is in flight and none has failed, the displayed
\* journalEntries hold every entry whose create has resolved
C23_ReloadShowsCreated ==
    page = "Journal" =>
        /\ ~isLoading => pending = 0
        /\ (pending = 0 /\ "Error loading data" \notin logged) =>
              \A i \in DOMAIN created : arrayIncludes(journalEntries, created[i])

\* C24: on every page, when the fetches of loadData settle, isLoading becomes
\* false, whether they resolve or one of them rejects
C24_LoadingEnds == isLoading ~> ~isLoading

\* a load whose fetch rejected has ended the loading state
C24_Witness ==
    /\ ~isLoading
    /\ pending = 0
    /\ "Error loading data" \in logged

====
